---- MODULE Spec2Model ----
(***************************************************************************)
(* Focus Sessions: the session store, the config store, the dashboard      *)
(* timer state machine and the application loop that re-creates the        *)
(* dashboard after the settings screen.                                    *)
(*                                                                         *)
(* Time is the wall clock in whole seconds.  A tick armed by tea.Tick      *)
(* (time.Second) is delivered one second after it is armed: tickWait       *)
(* counts the armed ticks whose second has not elapsed yet, tickDue the    *)
(* ones that are ready for delivery.  Key events are processed at any      *)
(* moment, also between a tick becoming due and its delivery.  The clock   *)
(* is followed only while it can still matter: while a session is in       *)
(* flight or a session can still be started.                               *)
(***************************************************************************)
EXTENDS Integers, Sequences, FiniteSets, TLC

\* ---------------------------------------------------------------- bounds
MaxTime == 62
MaxStartTime == 0
MaxSessions == 2
MaxArmed == 2
MaxPlanned == 1

\* ------------------------------------------------------ program constants
SecondsPerMinute == 60
CheckpointEvery == 10
MinSessionDuration == 1
MaxSessionDuration == 180
MinDailyGoal == 1
MaxDailyGoal == 24
MinHour == 0
MaxHour == 23

\* The zero time.Time (EndTime of a session that has not ended).
NoTime == -1
\* A nil *models.Session.
NoSession == [id |-> 0]
\* A missing config.json.
NoConfig == [SessionDuration |-> 0]
\* An empty text input.
Empty == -1

VARIABLES
    sessions,       \* sessions.json: the stored list of session records
    configFile,     \* config.json: a Config record, or NoConfig
    now,            \* wall clock, seconds
    phase,          \* what runs: off (no process), setup, dashboard, settings
    nextId,         \* number of session ids handed out so far
    faulty,         \* TRUE when writes to the data directory may fail
    config,         \* dashboard.Model.config
    activeSession,  \* dashboard.Model.activeSession
    viewState,      \* dashboard.Model.viewState
    helpQuit,       \* dashboard.Model.helpModel.quit
    timerRunning,   \* dashboard.Model.timerRunning
    timerPaused,    \* dashboard.Model.timerPaused
    timerElapsed,   \* dashboard.Model.timerElapsed
    timerDuration,  \* dashboard.Model.timerDuration
    shouldQuit,     \* dashboard.Model.shouldQuit
    openSettings,   \* dashboard.Model.openSettings
    shown,          \* dashboard.Model.todayStats, weekStats, monthStats, yearStats
    tickDue,        \* armed ticks ready for delivery
    tickWait,       \* armed ticks whose second has not elapsed
    confirmReset,   \* settings.Model.confirmReset
    errorMsg,       \* settings.Model.errorMsg
    settingsConfig, \* settings.Model.config
    exportMessage,  \* dashboard.Model.exportMessage, with the result it reports
    corrupt,        \* TRUE when sessions.json holds bytes that do not parse
    persisted,      \* history: config.json has been written at some time
    counted,        \* history: the elapsed seconds the timer was set up with, plus the ticks
                    \* delivered since then while it was running and not paused
    undisturbed,    \* history: the session in flight was started in this dashboard run
    pausedOnce,     \* history: a second has passed while the session in flight was paused
                    \* and has not been paused
    synced,         \* history: the stored elapsedSeconds of the session in flight were written
                    \* in this dashboard run, or the timer was set up from them
    created,        \* history: the dashboard was created and no key or tick has reached it yet
    lastExit,       \* history: the timer the dashboard held when it last ended with a session
                    \* in flight, kept while the program is not running and forgotten at
                    \* the first event or second the running program sees afterwards
    answer          \* the last call made on the storage package directly, with its result

storeVars == <<sessions, configFile>>
dashVars == <<config, activeSession, viewState, helpQuit, timerRunning, timerPaused,
              timerElapsed, timerDuration, shouldQuit, openSettings, shown>>
timerVars == <<activeSession, timerRunning, timerPaused, timerElapsed, timerDuration>>
tickVars == <<tickDue, tickWait>>
setVars == <<confirmReset, errorMsg, settingsConfig>>
histVars == <<counted, undisturbed, pausedOnce, synced, created, lastExit>>
vars == <<sessions, configFile, now, phase, nextId, faulty, config, activeSession,
          viewState, helpQuit, timerRunning, timerPaused, timerElapsed, timerDuration,
          shouldQuit, openSettings, shown, tickDue, tickWait, confirmReset, errorMsg,
          settingsConfig, exportMessage, corrupt, persisted,
          counted, undisturbed, pausedOnce, synced, created, lastExit, answer>>

\* No dashboard run has ended with a session in flight.
NoExit == [kind |-> "none", id |-> 0, elapsed |-> 0, paused |-> FALSE]

\* The four rollups a dashboard holds before any was computed.
NoStats == [today |-> [sessionsCount |-> 0, totalMinutes |-> 0],
            week |-> [sessionsCount |-> 0, totalMinutes |-> 0],
            month |-> [sessionsCount |-> 0, totalMinutes |-> 0],
            year |-> [sessionsCount |-> 0, totalMinutes |-> 0]]

\* ---------------------------------------------------------------- models
DefaultConfig ==
    [SessionDuration |-> 60, DailySessionGoal |-> 8, WorkStartHour |-> 8, WorkEndHour |-> 16]

DetailViews ==
    {"StatsDetailDaily", "StatsDetailWeekly", "StatsDetailMonthly", "StatsDetailYearly"}

\* --------------------------------------------------------------- storage
\* The outcomes of one write to the data directory: TRUE is success.
WriteOutcomes == IF faulty THEN {TRUE, FALSE} ELSE {TRUE}

\* What a file holds after a write with the given outcome.
Written(old, new, ok) == IF ok THEN new ELSE old

\* Index of the first stored record with the given id, 0 when there is none.
IndexOfID(ss, id) ==
    IF \E i \in 1..Len(ss) : ss[i].id = id
    THEN CHOOSE i \in 1..Len(ss) :
            /\ ss[i].id = id
            /\ \A j \in 1..(i - 1) : ss[j].id # id
    ELSE 0

\* A SaveSession that never looks for the id and always appends.
SaveSessionAlwaysAppend(ss, s) == Append(ss, s)

\* A SaveSession that moves the record it replaces to the end of the list.
SaveSessionMoveToEnd(ss, s) ==
    LET Test(r) == r.id # s.id IN Append(SelectSeq(ss, Test), s)

\* Storage.SaveSession: the list that is written back.
SaveSession(ss, s) ==
    IF IndexOfID(ss, s.id) # 0
    THEN [i \in 1..Len(ss) |-> IF i = IndexOfID(ss, s.id) THEN s ELSE ss[i]]
    ELSE Append(ss, s)

\* A GetActiveSession that returns the first record that is not completed.
GetActiveSessionAnyUnfinished(ss) ==
    IF \E i \in 1..Len(ss) : ~ss[i].completed
    THEN ss[CHOOSE i \in 1..Len(ss) :
                /\ ~ss[i].completed
                /\ \A j \in 1..(i - 1) : ss[j].completed]
    ELSE NoSession

\* Storage.GetActiveSession: the first record that is active and not completed.
GetActiveSession(ss) ==
    IF \E i \in 1..Len(ss) : ss[i].active /\ ~ss[i].completed
    THEN ss[CHOOSE i \in 1..Len(ss) :
                /\ ss[i].active /\ ~ss[i].completed
                /\ \A j \in 1..(i - 1) : ~(ss[j].active /\ ~ss[j].completed)]
    ELSE NoSession

\* A DeactivateAllSessions that flips the active flag of every record.
DeactivateAllSessionsFlips(ss) ==
    [i \in 1..Len(ss) |-> [ss[i] EXCEPT !.active = ~ss[i].active]]

\* Storage.DeactivateAllSessions: the list that is written back.
DeactivateAllSessions(ss) ==
    [i \in 1..Len(ss) |-> [ss[i] EXCEPT !.active = FALSE]]

\* An IsFirstTime that never reports a first run.
IsFirstTimeNever == FALSE

\* Storage.IsFirstTime
IsFirstTime == configFile = NoConfig

\* Storage.GetConfig on a config file cf: the config returned, which is also
\* what the file holds afterwards (the default when it was missing).
GetConfig(cf) == IF cf = NoConfig THEN DefaultConfig ELSE cf

\* ------------------------------------------------------------------ Init
\* Directories, as filepath.Join builds them from os.UserHomeDir().
HomeDir == <<"home">>

Join(dir, name) == Append(dir, name)

\* The directory exportStats writes the report to first.
DownloadsDir == Join(HomeDir, "Downloads")

\* storage.New: the application data directory.
DataDir == Join(HomeDir, ".focussessions")

\* No directory.
NoDir == <<>>

\* No export was asked for, and no export result is shown.
NoExport ==
    [pending |-> FALSE, shown |-> FALSE, success |-> FALSE, message |-> "",
     path |-> NoDir, failed |-> {}]

\* No call has been made on the storage package directly.
NoAnswer == [op |-> "none"]

\* No process is running and config.json does not exist.
ProgramOff ==
    /\ configFile = NoConfig
    /\ now = 0
    /\ phase = "off"
    /\ nextId = 0
    /\ faulty = FALSE
    /\ config = NoConfig
    /\ activeSession = NoSession
    /\ viewState = "HomeView"
    /\ helpQuit = FALSE
    /\ timerRunning = FALSE
    /\ timerPaused = FALSE
    /\ timerElapsed = 0
    /\ timerDuration = 0
    /\ shouldQuit = FALSE
    /\ openSettings = FALSE
    /\ shown = NoStats
    /\ tickDue = 0
    /\ tickWait = 0
    /\ confirmReset = FALSE
    /\ errorMsg = ""
    /\ settingsConfig = NoConfig
    /\ exportMessage = NoExport
    /\ persisted = FALSE
    /\ counted = 0
    /\ undisturbed = FALSE
    /\ pausedOnce = FALSE
    /\ synced = FALSE
    /\ created = FALSE
    /\ lastExit = NoExit

Init ==
    /\ sessions = <<>>
    /\ corrupt = FALSE
    /\ answer = NoAnswer
    /\ ProgramOff


\* Go's integer division and int(float): the quotient truncated toward zero.
TruncDiv(a, b) == IF a >= 0 THEN a \div b ELSE -((-a) \div b)

\* Minutes taken from elapsedSeconds whenever they are not zero seconds.
ActualMinutesByElapsed(s) ==
    IF s.elapsedSeconds # 0
    THEN TruncDiv(s.elapsedSeconds, SecondsPerMinute)
    ELSE IF s.endTime # NoTime /\ s.startTime # NoTime
         THEN TruncDiv(s.endTime - s.startTime, SecondsPerMinute)
         ELSE s.duration

\* actualMinutes of a completed session, as every aggregator computes it.
ActualMinutes(s) ==
    LET byElapsed == TruncDiv(s.elapsedSeconds, SecondsPerMinute)
        bySpan == IF byElapsed = 0 /\ s.endTime # NoTime /\ s.startTime # NoTime
                  THEN TruncDiv(s.endTime - s.startTime, SecondsPerMinute)
                  ELSE byElapsed
    IN  IF bySpan = 0 THEN s.duration ELSE bySpan

\* totalMinutes accumulated over a list of completed sessions.
RECURSIVE SumMinutes(_)
SumMinutes(ss) ==
    IF ss = <<>> THEN 0 ELSE ActualMinutes(Head(ss)) + SumMinutes(Tail(ss))

\* The planned minutes of a list of sessions.
RECURSIVE SumPlanned(_)
SumPlanned(ss) ==
    IF ss = <<>> THEN 0 ELSE Head(ss).duration + SumPlanned(Tail(ss))

\* The records an aggregator's loop counts: those with Completed set.
CompletedOf(ss) ==
    LET Test(s) == s.completed IN SelectSeq(ss, Test)

\* The figures of a rollup: how many of the sessions of its period are completed
\* and the minutes they add up to, as GetDayStats, GetWeekStats, GetMonthStats
\* and GetYearStats compute them.
Rollup(ss) ==
    [sessionsCount |-> Len(CompletedOf(ss)), totalMinutes |-> SumMinutes(CompletedOf(ss))]

\* The rollups of today, of this week, of this month and of this year over the
\* stored list ss.  The wall clock of the model covers the seconds of one day,
\* so each of the four periods holds every stored session.
AllStats(ss) ==
    [today |-> Rollup(ss), week |-> Rollup(ss), month |-> Rollup(ss), year |-> Rollup(ss)]

\* GetDayStats and GetWeekStats as cancelSession and completeSession call them,
\* with the error dropped: the zero value when the session file does not parse.
StatsOrZero(ss) == IF corrupt THEN Rollup(<<>>) ELSE Rollup(ss)

\* A cancelSession that refreshes nothing.
AfterCancelStale(old, ss) == old

\* cancelSession: todayStats is computed again.
AfterCancel(old, ss) == [old EXCEPT !.today = StatsOrZero(ss)]

\* A completeSession that refreshes all four rollups.
AfterCompleteAll(old, ss) ==
    [today |-> StatsOrZero(ss), week |-> StatsOrZero(ss),
     month |-> StatsOrZero(ss), year |-> StatsOrZero(ss)]

\* completeSession: todayStats and weekStats are computed again.
AfterComplete(old, ss) ==
    [old EXCEPT !.today = StatsOrZero(ss), !.week = StatsOrZero(ss)]

\* keys.Stats opening the statistics view: each rollup is replaced when its
\* call returns no error.
AfterStatsKey(old, ss) == IF corrupt THEN old ELSE AllStats(ss)

\* The smaller of two integers.
Min(a, b) == IF a < b THEN a ELSE b

\* ------------------------------------------------------------- dashboard
\* A recovery that takes the wall-clock time since the start without a ceiling.
RecoveredElapsedUnclamped(a, t) ==
    IF ~a.paused THEN t - a.startTime ELSE a.elapsedSeconds

\* dashboard.New, the timer set up from the stored active session a: the
\* elapsed seconds it starts from at wall-clock time t.
RecoveredElapsed(a, t) ==
    IF ~a.paused
    THEN IF t - a.startTime > a.duration * SecondsPerMinute
         THEN a.duration * SecondsPerMinute
         ELSE t - a.startTime
    ELSE a.elapsedSeconds

\* An Init that arms a tick for every recovered session, paused or not.
InitTicksAlways(a) == IF a # NoSession THEN 1 ELSE 0

\* dashboard.Model.Init: the number of ticks armed when the program starts.
InitTicks(a) == IF a # NoSession /\ ~a.paused THEN 1 ELSE 0

\* The in-memory state when no dashboard program runs.
MemoryGone ==
    /\ config' = NoConfig
    /\ activeSession' = NoSession
    /\ viewState' = "HomeView"
    /\ helpQuit' = FALSE
    /\ timerRunning' = FALSE
    /\ timerPaused' = FALSE
    /\ timerElapsed' = 0
    /\ timerDuration' = 0
    /\ shown' = NoStats
    /\ tickDue' = 0
    /\ tickWait' = 0
    /\ counted' = 0
    /\ undisturbed' = FALSE
    /\ pausedOnce' = (pausedOnce /\ timerRunning)
    /\ synced' = FALSE
    /\ exportMessage' = NoExport

\* The settings model is gone.
SettingsGone ==
    /\ confirmReset' = FALSE
    /\ errorMsg' = ""
    /\ settingsConfig' = NoConfig

\* What dashboard.New gets from the session file: nothing when it does not
\* parse, because New replaces each error by an empty value.
LoadedSessions == IF corrupt THEN <<>> ELSE sessions

\* The outcomes of one SaveSession or DeactivateAllSessions: both read the
\* session file first and return the error when it does not parse.
SaveOutcomes == IF corrupt THEN {FALSE} ELSE WriteOutcomes

\* A dashboard that takes the timer's length from the configuration even when a
\* session is in flight.
InitialDurationFromConfig(a, c) == c.SessionDuration * SecondsPerMinute

\* dashboard.New: the timer's length is the configured one, replaced by the
\* planned length of the session in flight when there is one.
InitialDuration(a, c) ==
    IF a # NoSession
    THEN a.duration * SecondsPerMinute
    ELSE c.SessionDuration * SecondsPerMinute

\* runApp's loop body: dashboard.New on the store (cf, ss), then
\* tea.NewProgram(...).Run(), which calls Init.  GetConfig writes the default
\* config when config.json is missing; when that write fails New returns the
\* error, runApp returns it and main exits.
StartDashboard(cf, ss) ==
    /\ \E ok \in WriteOutcomes :
        IF cf = NoConfig /\ ~ok
        THEN /\ phase' = "off"
             /\ configFile' = cf
             /\ created' = FALSE
             /\ persisted' = persisted
             /\ MemoryGone
        ELSE LET a == GetActiveSession(ss) IN
             /\ phase' = "dashboard"
             /\ configFile' = GetConfig(cf)
             /\ config' = GetConfig(cf)
             /\ activeSession' = a
             /\ viewState' = "HomeView"
             /\ helpQuit' = FALSE
             /\ timerRunning' = (a # NoSession)
             /\ timerPaused' = IF a # NoSession THEN a.paused ELSE FALSE
             /\ timerDuration' = InitialDuration(a, GetConfig(cf))
             /\ timerElapsed' = IF a # NoSession THEN RecoveredElapsed(a, now) ELSE 0
             /\ shown' = AllStats(ss)
             /\ tickDue' = 0
             /\ tickWait' = InitTicks(a)
             /\ counted' = IF a # NoSession THEN RecoveredElapsed(a, now) ELSE 0
             /\ undisturbed' = FALSE
             /\ pausedOnce' = (pausedOnce /\ a # NoSession)
             /\ synced' = (a # NoSession /\ a.paused)
             /\ created' = TRUE
             /\ persisted' = TRUE
             /\ exportMessage' = NoExport
    /\ shouldQuit' = FALSE
    /\ openSettings' = FALSE
    /\ SettingsGone
    /\ UNCHANGED lastExit

\* main() and runApp when a config exists: the dashboard is created.
DashboardNew ==
    /\ phase = "off"
    /\ ~IsFirstTime
    /\ StartDashboard(configFile, LoadedSessions)
    /\ UNCHANGED <<sessions, now, nextId, faulty, answer, corrupt>>

\* A key reaches the dashboard's own bindings only outside the help view.
KeysOpen == phase = "dashboard" /\ viewState # "HelpView"

\* History: a key or a tick has reached the dashboard.
Reached == created' = FALSE /\ lastExit' = NoExit

\* The record the Quit handler saves.
QuitRecord(s, elapsed, paused) ==
    [s EXCEPT !.elapsedSeconds = elapsed, !.paused = paused]

\* keys.Quit: save the session in flight, then tea.Quit; runApp sees ShouldQuit
\* and returns, and the process ends.
DashQuit ==
    /\ KeysOpen
    /\ \E ok \in SaveOutcomes :
        sessions' = IF timerRunning /\ activeSession # NoSession
                    THEN Written(sessions,
                                 SaveSession(sessions,
                                             QuitRecord(activeSession, timerElapsed, timerPaused)),
                                 ok)
                    ELSE sessions
    /\ lastExit' = IF timerRunning /\ activeSession # NoSession
                   THEN [kind |-> "quit", id |-> activeSession.id,
                         elapsed |-> timerElapsed, paused |-> timerPaused]
                   ELSE NoExit
    /\ shouldQuit' = TRUE
    /\ openSettings' = FALSE
    /\ phase' = "off"
    /\ created' = FALSE
    /\ MemoryGone
    /\ UNCHANGED <<configFile, now, nextId, faulty, answer, corrupt, persisted, setVars>>

\* keys.Home
DashHome ==
    /\ KeysOpen
    /\ viewState' = "HomeView"
    /\ Reached
    /\ UNCHANGED <<storeVars, now, phase, nextId, faulty, answer, corrupt, persisted, exportMessage, config, shown, helpQuit, timerVars,
                   shouldQuit, openSettings, tickVars, setVars, counted, undisturbed, pausedOnce, synced>>

\* keys.Back
DashBack ==
    /\ KeysOpen
    /\ viewState' = IF viewState \in DetailViews THEN "StatsView"
                    ELSE IF viewState = "StatsView" THEN "HomeView"
                    ELSE viewState
    /\ Reached
    /\ UNCHANGED <<storeVars, now, phase, nextId, faulty, answer, corrupt, persisted, exportMessage, config, shown, helpQuit, timerVars,
                   shouldQuit, openSettings, tickVars, setVars, counted, undisturbed, pausedOnce, synced>>

\* keys.Help
DashHelp ==
    /\ KeysOpen
    /\ viewState' = "HelpView"
    /\ Reached
    /\ UNCHANGED <<storeVars, now, phase, nextId, faulty, answer, corrupt, persisted, exportMessage, config, shown, helpQuit, timerVars,
                   shouldQuit, openSettings, tickVars, setVars, counted, undisturbed, pausedOnce, synced>>

\* A key pressed in the help view goes to help.Model.Update: Back, Quit and Home
\* set its quit flag, which is never cleared; the dashboard returns to the home
\* view when the flag is set and handles no other binding.
HelpKey ==
    /\ phase = "dashboard"
    /\ viewState = "HelpView"
    /\ \E closes \in BOOLEAN :
        /\ helpQuit' = (helpQuit \/ closes)
        /\ viewState' = IF helpQuit \/ closes THEN "HomeView" ELSE "HelpView"
    /\ Reached
    /\ UNCHANGED <<storeVars, now, phase, nextId, faulty, answer, corrupt, persisted, exportMessage, config, shown, timerVars,
                   shouldQuit, openSettings, tickVars, setVars, counted, undisturbed, pausedOnce, synced>>

\* keys.Stats
DashStats ==
    /\ KeysOpen
    /\ viewState' = IF viewState = "StatsView" THEN "HomeView" ELSE "StatsView"
    /\ shown' = IF viewState = "StatsView" THEN shown ELSE AfterStatsKey(shown, sessions)
    /\ Reached
    /\ UNCHANGED <<storeVars, now, phase, nextId, faulty, answer, corrupt, persisted, exportMessage, config, helpQuit, timerVars,
                   shouldQuit, openSettings, tickVars, setVars, counted, undisturbed, pausedOnce, synced>>

\* keys.Daily, keys.Weekly, keys.Monthly, keys.Yearly
DashDetail ==
    /\ KeysOpen
    /\ viewState = "StatsView"
    /\ \E v \in DetailViews : viewState' = v
    /\ Reached
    /\ UNCHANGED <<storeVars, now, phase, nextId, faulty, answer, corrupt, persisted, exportMessage, config, shown, helpQuit, timerVars,
                   shouldQuit, openSettings, tickVars, setVars, counted, undisturbed, pausedOnce, synced>>

\* The session record startNewSession creates at wall-clock time t.
NewSession(id, t, minutes) ==
    [id |-> id, startTime |-> t, endTime |-> NoTime, duration |-> minutes,
     completed |-> FALSE, active |-> TRUE, elapsedSeconds |-> 0, paused |-> FALSE]

\* startNewSession: the stored list after DeactivateAllSessions and SaveSession.
StartedSessions(ss, session, ok1, ok2) ==
    Written(Written(ss, DeactivateAllSessions(ss), ok1),
            SaveSession(Written(ss, DeactivateAllSessions(ss), ok1), session),
            ok2)

\* The case guards of the session keys in dashboard.Model.Update.
StartAcceptedAlways == TRUE
StartAccepted == ~timerRunning
PauseAcceptedWhileRunning == timerRunning
PauseAccepted == timerRunning /\ ~timerPaused
ResumeAccepted == timerRunning /\ timerPaused
CancelAccepted == timerRunning

\* keys.Start while no timer is running: startNewSession, for sessions started
\* no later than latest and planned for at most longest minutes.
StartNewSession(latest, longest) ==
    /\ KeysOpen
    /\ StartAccepted
    /\ nextId < MaxSessions
    /\ now <= latest
    /\ config.SessionDuration <= longest
    /\ tickDue + tickWait < MaxArmed
    /\ LET session == NewSession(nextId + 1, now, config.SessionDuration) IN
        /\ \E ok1, ok2 \in SaveOutcomes :
            sessions' = StartedSessions(sessions, session, ok1, ok2)
        /\ activeSession' = session
    /\ nextId' = nextId + 1
    /\ timerRunning' = TRUE
    /\ timerPaused' = FALSE
    /\ timerElapsed' = 0
    /\ timerDuration' = config.SessionDuration * SecondsPerMinute
    /\ tickWait' = tickWait + 1
    /\ counted' = 0
    /\ undisturbed' = TRUE
    /\ pausedOnce' = FALSE
    /\ synced' = TRUE
    /\ Reached
    /\ UNCHANGED <<configFile, now, phase, faulty, answer, corrupt, persisted, exportMessage, config, shown, viewState, helpQuit,
                   shouldQuit, openSettings, tickDue, setVars>>

\* keys.Start within the bounds of the main specification.
DashStart == StartNewSession(MaxStartTime, MaxPlanned)

\* A Pause handler that sets the flag and leaves the stored elapsed seconds alone.
PauseRecordFlagOnly(s, elapsed) == [s EXCEPT !.paused = TRUE]

\* The record the Pause handler saves.
PauseRecord(s, elapsed) ==
    [s EXCEPT !.paused = TRUE, !.elapsedSeconds = elapsed]

\* keys.Pause while the timer is running and not paused.
DashPause ==
    /\ KeysOpen
    /\ PauseAccepted
    /\ timerPaused' = TRUE
    /\ IF activeSession # NoSession
       THEN /\ activeSession' = PauseRecord(activeSession, timerElapsed)
            /\ \E ok \in SaveOutcomes :
                /\ sessions' = Written(sessions, SaveSession(sessions, activeSession'), ok)
                /\ synced' = (synced \/ ok)
       ELSE UNCHANGED <<activeSession, sessions, synced>>
    /\ undisturbed' = FALSE
    /\ pausedOnce' = pausedOnce
    /\ Reached
    /\ UNCHANGED <<configFile, now, phase, nextId, faulty, answer, corrupt, persisted, exportMessage, config, shown, viewState, helpQuit,
                   timerRunning, timerElapsed, timerDuration, shouldQuit, openSettings,
                   tickVars, setVars, counted>>

\* The record the Resume handler saves.
ResumeRecord(s) == [s EXCEPT !.paused = FALSE]

\* keys.Resume while the timer is running and paused; it arms a tick.
DashResume ==
    /\ KeysOpen
    /\ ResumeAccepted
    /\ tickDue + tickWait < MaxArmed
    /\ timerPaused' = FALSE
    /\ IF activeSession # NoSession
       THEN /\ activeSession' = ResumeRecord(activeSession)
            /\ \E ok \in SaveOutcomes :
                sessions' = Written(sessions, SaveSession(sessions, activeSession'), ok)
       ELSE UNCHANGED <<activeSession, sessions>>
    /\ tickWait' = tickWait + 1
    /\ Reached
    /\ UNCHANGED <<configFile, now, phase, nextId, faulty, answer, corrupt, persisted, exportMessage, config, shown, viewState, helpQuit,
                   timerRunning, timerElapsed, timerDuration, shouldQuit, openSettings,
                   tickDue, setVars, counted, undisturbed, pausedOnce, synced>>

\* A cancelSession that forgets to clear the active flag.
CancelRecordStillActive(s, elapsed, t) ==
    [s EXCEPT !.endTime = t, !.completed = FALSE, !.elapsedSeconds = elapsed]

\* The record cancelSession saves at wall-clock time t.
CancelRecord(s, elapsed, t) ==
    [s EXCEPT !.endTime = t, !.completed = FALSE, !.active = FALSE,
              !.elapsedSeconds = elapsed]

\* keys.Cancel while the timer is running: cancelSession.
DashCancel ==
    /\ KeysOpen
    /\ CancelAccepted
    /\ \E ok \in SaveOutcomes :
        sessions' = IF activeSession # NoSession
                    THEN Written(sessions,
                                 SaveSession(sessions,
                                             CancelRecord(activeSession, timerElapsed, now)),
                                 ok)
                    ELSE sessions
    /\ activeSession' = NoSession
    /\ timerRunning' = FALSE
    /\ timerPaused' = FALSE
    /\ timerElapsed' = 0
    /\ shown' = AfterCancel(shown, sessions')
    /\ counted' = 0
    /\ undisturbed' = FALSE
    /\ pausedOnce' = FALSE
    /\ synced' = FALSE
    /\ Reached
    /\ UNCHANGED <<configFile, now, phase, nextId, faulty, answer, corrupt, persisted, exportMessage, config, viewState, helpQuit,
                   timerDuration, shouldQuit, openSettings, tickVars, setVars>>

\* A session key whose case guard is false matches no case of the switch:
\* Update falls through to its final return and nothing changes.
SessionKeys == {"Start", "Pause", "Resume", "Cancel"}

KeyAccepted(k) ==
    CASE k = "Start" -> StartAccepted
      [] k = "Pause" -> PauseAccepted
      [] k = "Resume" -> ResumeAccepted
      [] k = "Cancel" -> CancelAccepted

DashIgnored ==
    /\ KeysOpen
    /\ \E k \in SessionKeys : ~KeyAccepted(k)
    /\ Reached
    /\ UNCHANGED <<storeVars, now, phase, nextId, faulty, answer, corrupt, persisted, exportMessage, config, shown, viewState, helpQuit,
                   timerVars, shouldQuit, openSettings, tickVars, setVars,
                   counted, undisturbed, pausedOnce, synced>>

\* keys.Settings: tea.Quit with openSettings set; runApp drops the dashboard
\* model and builds the settings screen with settings.New.
DashSettings ==
    /\ KeysOpen
    /\ phase' = "settings"
    /\ openSettings' = TRUE
    /\ shouldQuit' = FALSE
    /\ confirmReset' = FALSE
    /\ errorMsg' = ""
    /\ settingsConfig' = configFile
    /\ lastExit' = IF timerRunning /\ activeSession # NoSession
                   THEN [kind |-> "settings", id |-> activeSession.id,
                         elapsed |-> timerElapsed, paused |-> timerPaused]
                   ELSE NoExit
    /\ created' = FALSE
    /\ MemoryGone
    /\ UNCHANGED <<storeVars, now, nextId, faulty, answer, corrupt, persisted>>

\* The record the tick handler saves at a checkpoint.
CheckpointRecord(s, elapsed) == [s EXCEPT !.elapsedSeconds = elapsed]

\* A completion that leaves the end time unset.
CompleteRecordNoEndTime(s, elapsed, t) ==
    [s EXCEPT !.completed = TRUE, !.active = FALSE, !.elapsedSeconds = elapsed]

\* The record completeSession saves at wall-clock time t.
CompleteRecord(s, elapsed, t) ==
    [s EXCEPT !.endTime = t, !.completed = TRUE, !.active = FALSE,
              !.elapsedSeconds = elapsed]

\* A tick handler that counts ticks while paused too.
TickCountsPaused == timerRunning

\* A handler that counts no tick.
TickCountsNever == FALSE

\* A tick handler without its guard.
TickCountsAlways == TRUE

\* The tick handler counts a tick in this state.
TickCounts == timerRunning /\ ~timerPaused

\* A tick handler that saves a checkpoint on every twentieth second only.
CheckpointDueRarely(elapsed) == elapsed % (2 * CheckpointEvery) = 0 /\ activeSession # NoSession

\* A tick handler that saves the session on every tick.
CheckpointDueAlways(elapsed) == activeSession # NoSession

\* The tick handler saves a checkpoint at this elapsed value.
CheckpointDue(elapsed) == elapsed % CheckpointEvery = 0 /\ activeSession # NoSession

\* A tick handler that ends the session one tick late.
SessionCompleteLate(elapsed) == elapsed > timerDuration

\* The tick handler ends the session at this elapsed value.
SessionComplete(elapsed) == elapsed >= timerDuration

\* tickMsg: a due tick is delivered to dashboard.Model.Update.
DashTick ==
    /\ phase = "dashboard"
    /\ tickDue > 0
    /\ IF TickCounts
       THEN LET elapsed == timerElapsed + 1
                checkpointed == IF CheckpointDue(elapsed)
                                THEN CheckpointRecord(activeSession, elapsed)
                                ELSE activeSession
            IN  \E ok1, ok2 \in SaveOutcomes :
                LET saved == IF CheckpointDue(elapsed)
                             THEN Written(sessions, SaveSession(sessions, checkpointed), ok1)
                             ELSE sessions
                IN  /\ synced' = IF SessionComplete(elapsed) THEN FALSE
                                  ELSE IF CheckpointDue(elapsed) THEN ok1 ELSE synced
                    /\ IF SessionComplete(elapsed)
                       THEN \* completeSession
                            /\ sessions' = IF checkpointed # NoSession
                                           THEN Written(saved,
                                                        SaveSession(saved,
                                                                    CompleteRecord(checkpointed, elapsed, now)),
                                                        ok2)
                                           ELSE saved
                            /\ activeSession' = NoSession
                            /\ timerRunning' = FALSE
                            /\ timerPaused' = FALSE
                            /\ timerElapsed' = 0
                            /\ shown' = AfterComplete(shown, sessions')
                            /\ tickDue' = tickDue - 1
                            /\ tickWait' = tickWait
                       ELSE /\ sessions' = saved
                            /\ activeSession' = checkpointed
                            /\ timerElapsed' = elapsed
                            /\ tickDue' = tickDue - 1
                            /\ tickWait' = tickWait + 1
                            /\ UNCHANGED <<timerRunning, timerPaused, shown>>
       ELSE /\ tickDue' = tickDue - 1
            /\ UNCHANGED <<sessions, activeSession, timerRunning, timerPaused, timerElapsed,
                           shown, tickWait, synced>>
    \* history
    /\ counted' = IF ~timerRunning' THEN 0
                  ELSE IF timerRunning /\ ~timerPaused THEN counted + 1
                  ELSE counted
    /\ undisturbed' = (undisturbed /\ timerRunning')
    /\ pausedOnce' = (pausedOnce /\ timerRunning')
    /\ Reached
    /\ UNCHANGED <<configFile, now, phase, nextId, faulty, answer, corrupt, persisted, exportMessage, config, viewState, helpQuit,
                   timerDuration, shouldQuit, openSettings, setVars>>

\* The wall clock is followed while it can still matter: a stored session is
\* active, or a session can still be started.
ClockMatters ==
    \/ \E i \in 1..Len(sessions) : sessions[i].active
    \/ now <= MaxStartTime /\ nextId < MaxSessions

\* One second of wall-clock time passes.  While the dashboard runs, a tick that
\* is due is delivered before the next second ends.
Second ==
    /\ now < MaxTime
    /\ ClockMatters
    /\ tickDue = 0
    /\ now' = now + 1
    /\ tickDue' = tickWait
    /\ tickWait' = 0
    /\ lastExit' = IF phase = "off" THEN lastExit ELSE NoExit
    /\ UNCHANGED <<storeVars, phase, nextId, faulty, answer, corrupt, persisted, exportMessage, dashVars, setVars, counted, undisturbed,
                   synced, created>>

Advance ==
    /\ Second
    /\ pausedOnce' = pausedOnce

\* The same second, with the history of pauses kept: it is noted when the
\* second passes while the session on the dashboard is paused.
AdvanceNoted ==
    /\ Second
    /\ pausedOnce' = (pausedOnce \/ (phase = "dashboard" /\ timerRunning /\ timerPaused))

\* -------------------------------------------------------------- settings
\* main() and runApp on a first run: settings.New, whose GetConfig writes the
\* default config; when that write fails runApp returns the error.
RunAppSetup ==
    /\ phase = "off"
    /\ IsFirstTime
    /\ \E ok \in WriteOutcomes :
        /\ configFile' = Written(configFile, DefaultConfig, ok)
        /\ phase' = IF ok THEN "setup" ELSE "off"
        /\ settingsConfig' = IF ok THEN DefaultConfig ELSE NoConfig
        /\ persisted' = (persisted \/ ok)
    /\ confirmReset' = FALSE
    /\ errorMsg' = ""
    /\ UNCHANGED <<sessions, now, nextId, faulty, answer, corrupt, exportMessage, dashVars,
                   tickVars, histVars>>

InSettings == phase \in {"setup", "settings"}

\* What the user may have typed in the four fields when Save is pressed.
DurationInputs == {Empty, 0, 1, 181}
GoalInputs == {Empty, 0, 8, 25}
StartHourInputs == {Empty, 8, 24}
EndHourInputs == {Empty, 8, 16, 24}

\* Checks that leave out the comparison of the two hours.
ValidInputAnyHours(duration, goal, startHour, endHour) ==
    /\ duration # Empty
    /\ duration >= MinSessionDuration /\ duration <= MaxSessionDuration
    /\ goal # Empty
    /\ goal >= MinDailyGoal /\ goal <= MaxDailyGoal
    /\ startHour # Empty
    /\ startHour >= MinHour /\ startHour <= MaxHour
    /\ endHour # Empty
    /\ endHour >= MinHour /\ endHour <= MaxHour

\* settings.Model.saveConfig: the checks that let the values through.
ValidInput(duration, goal, startHour, endHour) ==
    /\ duration # Empty
    /\ duration >= MinSessionDuration /\ duration <= MaxSessionDuration
    /\ goal # Empty
    /\ goal >= MinDailyGoal /\ goal <= MaxDailyGoal
    /\ startHour # Empty
    /\ startHour >= MinHour /\ startHour <= MaxHour
    /\ endHour # Empty
    /\ endHour >= MinHour /\ endHour <= MaxHour
    /\ ~(endHour <= startHour)

\* settings.Model.saveConfig: the error of the first check that fails.
SaveError(duration, goal, startHour, endHour) ==
    IF duration = Empty THEN "session duration is required"
    ELSE IF duration < MinSessionDuration \/ duration > MaxSessionDuration
    THEN "session duration must be between 1-180 minutes"
    ELSE IF goal = Empty THEN "daily session goal is required"
    ELSE IF goal < MinDailyGoal \/ goal > MaxDailyGoal
    THEN "daily goal must be between 1-24 sessions"
    ELSE IF startHour = Empty THEN "work start hour is required"
    ELSE IF startHour < MinHour \/ startHour > MaxHour
    THEN "start hour must be between 0-23"
    ELSE IF endHour = Empty THEN "work end hour is required"
    ELSE IF endHour < MinHour \/ endHour > MaxHour
    THEN "end hour must be between 0-23"
    ELSE "end hour must be greater than start hour"

\* A key that did not end Update is handed to updateInputs.  Save and Reset
\* are bound to letters: whether the focused text input takes the letter into
\* its value depends on its CharLimit and on whether the textinput of the
\* bubbles version in use lets Validate refuse input.
KeyTaken == BOOLEAN

\* updateInputs: the error message is cleared when an input's value changed.
AfterInputs(msg, taken) == IF taken THEN "" ELSE msg

\* keys.Save with values that pass saveConfig: the config is written and the
\* settings program quits; runApp goes round its loop and creates the dashboard.
SaveTyped(durations) ==
    /\ InSettings
    /\ \E duration \in durations, goal \in GoalInputs,
          startHour \in StartHourInputs, endHour \in EndHourInputs :
        /\ ValidInput(duration, goal, startHour, endHour)
        /\ \E ok \in WriteOutcomes :
            IF ok
            THEN StartDashboard([SessionDuration |-> duration, DailySessionGoal |-> goal,
                                 WorkStartHour |-> startHour, WorkEndHour |-> endHour],
                                LoadedSessions)
            ELSE /\ settingsConfig' = [SessionDuration |-> duration,
                                       DailySessionGoal |-> goal,
                                       WorkStartHour |-> startHour, WorkEndHour |-> endHour]
                 /\ \E taken \in KeyTaken : errorMsg' = AfterInputs("write failed", taken)
                 /\ UNCHANGED <<configFile, phase, dashVars, tickVars, confirmReset, histVars,
                                persisted, exportMessage>>
    /\ UNCHANGED <<sessions, now, nextId, faulty, answer, corrupt>>

\* keys.Save with the durations of the main specification.
SettingsSave == SaveTyped(DurationInputs)

\* The user's inputs that fail a check of saveConfig.
RejectedInputs ==
    {in \in DurationInputs \X GoalInputs \X StartHourInputs \X EndHourInputs :
        ~ValidInput(in[1], in[2], in[3], in[4])}

\* The errors saveConfig returns on them.
RejectedErrors == {SaveError(in[1], in[2], in[3], in[4]) : in \in RejectedInputs}

\* keys.Save with values that fail a check of saveConfig: the error is kept
\* as the message, nothing is written, and the key goes on to updateInputs.
SettingsRejected ==
    /\ InSettings
    /\ \E msg \in RejectedErrors, taken \in KeyTaken :
        errorMsg' = AfterInputs(msg, taken)
    /\ lastExit' = NoExit
    /\ UNCHANGED <<storeVars, now, phase, nextId, faulty, answer, corrupt, persisted,
                   exportMessage, dashVars, tickVars, confirmReset, settingsConfig,
                   counted, undisturbed, pausedOnce, synced, created>>

\* keys.Reset, first press: ask for confirmation.
SettingsResetAsk ==
    /\ InSettings
    /\ ~confirmReset
    /\ confirmReset' = TRUE
    /\ lastExit' = NoExit
    /\ UNCHANGED <<storeVars, now, phase, nextId, faulty, answer, corrupt, persisted,
                   exportMessage, dashVars, tickVars, errorMsg, settingsConfig,
                   counted, undisturbed, pausedOnce, synced, created>>

\* keys.Reset, second press: resetAllData; Storage.ResetAllData removes
\* sessions.json, then config.json.  When both are gone the settings program
\* quits and runApp creates the dashboard.
SettingsResetConfirm ==
    /\ InSettings
    /\ confirmReset
    /\ \E ok1, ok2 \in WriteOutcomes :
        /\ sessions' = Written(sessions, <<>>, ok1)
        /\ corrupt' = (corrupt /\ ~ok1)
        /\ IF ok1 /\ ok2
           THEN StartDashboard(NoConfig, <<>>)
           ELSE /\ \E taken \in KeyTaken : errorMsg' = AfterInputs(errorMsg, taken)
                /\ UNCHANGED <<configFile, phase, dashVars, tickVars, confirmReset,
                               settingsConfig, histVars, persisted, exportMessage>>
    /\ UNCHANGED <<now, nextId, faulty, answer>>

\* A back key that leaves the settings screen with the confirmation pending.
SettingsBackLeaves ==
    /\ InSettings
    /\ StartDashboard(configFile, LoadedSessions)
    /\ UNCHANGED <<sessions, now, nextId, faulty, answer, corrupt>>

\* keys.Back / keys.Quit: drop a pending confirmation, otherwise the settings
\* program quits and runApp creates the dashboard.
SettingsBack ==
    /\ InSettings
    /\ IF confirmReset
       THEN /\ confirmReset' = FALSE
            /\ UNCHANGED <<configFile, phase, dashVars, tickVars, histVars, errorMsg,
                           settingsConfig, persisted, exportMessage>>
       ELSE StartDashboard(configFile, LoadedSessions)
    /\ UNCHANGED <<sessions, now, nextId, faulty, answer, corrupt>>

\* ------------------------------------------------------------------ spec
Next ==
    \/ RunAppSetup
    \/ DashboardNew
    \/ DashQuit
    \/ DashStart
    \/ DashPause
    \/ DashResume
    \/ DashCancel
    \/ DashIgnored
    \/ DashSettings
    \/ DashTick
    \/ Advance
    \/ SettingsSave
    \/ SettingsResetAsk
    \/ SettingsResetConfirm
    \/ SettingsBack

Spec == Init /\ [][Next]_vars

\* The same program with the dashboard's view navigation.
NextNav ==
    \/ Next
    \/ DashHome
    \/ DashBack
    \/ DashHelp
    \/ HelpKey
    \/ DashStats
    \/ DashDetail

SpecNav == Init /\ [][NextNav]_vars

\* The program started on a data directory whose session file may not parse,
\* with the settings screen's refused save attempts, within one second of the
\* clock.
InitEnv ==
    /\ sessions = <<>>
    /\ corrupt \in BOOLEAN
    /\ answer = NoAnswer
    /\ ProgramOff

NextEnv ==
    \/ RunAppSetup
    \/ DashboardNew
    \/ DashQuit
    \/ DashStart
    \/ DashPause
    \/ DashResume
    \/ DashCancel
    \/ DashSettings
    \/ SettingsSave
    \/ SettingsRejected
    \/ SettingsResetAsk
    \/ SettingsResetConfirm
    \/ SettingsBack

SpecEnv == InitEnv /\ [][NextEnv]_vars

\* ---------------------------------------------------------------- export
\* An export that gives up after the first write failed.
ExportStatsWithoutFallback(readOk, homeOk, okDownloads, okHome) ==
    IF ~readOk
    THEN [success |-> FALSE, message |-> "Export failed", path |-> NoDir, failed |-> {}]
    ELSE IF ~homeOk
    THEN [success |-> FALSE, message |-> "Failed to get home directory", path |-> NoDir,
          failed |-> {}]
    ELSE IF okDownloads
    THEN [success |-> TRUE, message |-> "[OK] Exported to", path |-> DownloadsDir,
          failed |-> {}]
    ELSE [success |-> FALSE, message |-> "Failed to save file", path |-> NoDir,
          failed |-> {DownloadsDir}]

\* dashboard.Model.exportStats, the command: the exportResultMsg it returns,
\* with the directory the report was written to and, for the record, the
\* directories whose write failed.  readOk: ExportAllStats returned a report;
\* homeOk: os.UserHomeDir succeeded; okDownloads, okHome: the two os.WriteFile.
ExportStats(readOk, homeOk, okDownloads, okHome) ==
    IF ~readOk
    THEN [success |-> FALSE, message |-> "Export failed", path |-> NoDir, failed |-> {}]
    ELSE IF ~homeOk
    THEN [success |-> FALSE, message |-> "Failed to get home directory", path |-> NoDir,
          failed |-> {}]
    ELSE IF okDownloads
    THEN [success |-> TRUE, message |-> "[OK] Exported to", path |-> DownloadsDir,
          failed |-> {}]
    ELSE IF okHome
    THEN [success |-> TRUE, message |-> "[OK] Exported to", path |-> HomeDir,
          failed |-> {DownloadsDir}]
    ELSE [success |-> FALSE, message |-> "Failed to save file", path |-> NoDir,
          failed |-> {DownloadsDir, HomeDir}]

\* keys.Export: in the statistics views the export command is started; it
\* reads the sessions and writes the report.  One export at a time: the key
\* is pressed again after the message of the last export was cleared.
DashExport ==
    /\ KeysOpen
    /\ viewState \in {"StatsView"} \cup DetailViews
    /\ exportMessage = NoExport
    /\ \E homeOk, okDownloads, okHome \in BOOLEAN :
        LET res == ExportStats(~corrupt, homeOk, okDownloads, okHome) IN
        exportMessage' = [pending |-> TRUE, shown |-> FALSE, success |-> res.success,
                          message |-> res.message, path |-> res.path,
                          failed |-> res.failed]
    /\ Reached
    /\ UNCHANGED <<storeVars, now, phase, nextId, faulty, answer, corrupt, persisted, dashVars,
                   shouldQuit, openSettings, tickVars, setVars, counted, undisturbed, pausedOnce, synced>>

\* exportResultMsg: the message of the command is put on the screen.
ExportResult ==
    /\ phase = "dashboard"
    /\ exportMessage.pending
    /\ exportMessage' = [exportMessage EXCEPT !.pending = FALSE, !.shown = TRUE]
    /\ Reached
    /\ UNCHANGED <<storeVars, now, phase, nextId, faulty, answer, corrupt, persisted, dashVars,
                   shouldQuit, openSettings, tickVars, setVars, counted, undisturbed, pausedOnce, synced>>

\* clearExportMsg, three seconds later: the message is taken off the screen.
ExportClear ==
    /\ phase = "dashboard"
    /\ exportMessage.shown
    /\ exportMessage' = NoExport
    /\ Reached
    /\ UNCHANGED <<storeVars, now, phase, nextId, faulty, answer, corrupt, persisted, dashVars,
                   shouldQuit, openSettings, tickVars, setVars, counted, undisturbed, pausedOnce, synced>>

\* The program with the dashboard's views and the export, keys only.
NextExport ==
    \/ RunAppSetup
    \/ SettingsSave
    \/ SettingsBack
    \/ DashboardNew
    \/ DashQuit
    \/ DashStart
    \/ DashCancel
    \/ DashHome
    \/ DashBack
    \/ DashStats
    \/ DashDetail
    \/ DashExport
    \/ ExportResult
    \/ ExportClear

SpecExport == InitEnv /\ [][NextExport]_vars

\* One run of the dashboard, from the first-run setup to the quit, with its
\* scheduling: the Bubble Tea event loop hands every message that is due to
\* Update, so a due tick is processed, and the wall clock goes on.
NextLive ==
    \/ RunAppSetup
    \/ SettingsSave
    \/ SettingsResetAsk
    \/ SettingsResetConfirm
    \/ SettingsBack
    \/ DashQuit
    \/ DashStart
    \/ DashPause
    \/ DashResume
    \/ DashCancel
    \/ DashTick
    \/ Advance

SpecLive == Init /\ [][NextLive]_vars /\ WF_vars(DashTick) /\ WF_vars(Advance)

\* The program with the history of pauses, for the recovery of a session by
\* a new dashboard.
NextRecovery ==
    \/ RunAppSetup
    \/ SettingsSave
    \/ SettingsBack
    \/ DashboardNew
    \/ DashQuit
    \/ DashStart
    \/ DashPause
    \/ DashResume
    \/ DashSettings
    \/ DashTick
    \/ AdvanceNoted

SpecRecovery == Init /\ [][NextRecovery]_vars

\* From now on a write to the data directory can fail (disk full, directory
\* read-only): os.WriteFile returns an error.
WritesFail ==
    /\ ~faulty
    /\ faulty' = TRUE
    /\ UNCHANGED <<storeVars, now, phase, nextId, answer, corrupt, persisted, exportMessage,
                   dashVars, tickVars, setVars, histVars>>

\* Sessions started, cancelled and run to their end in one run of the
\* dashboard, on a data directory whose writes can fail.
NextFaulty ==
    \/ WritesFail
    \/ RunAppSetup
    \/ SettingsSave
    \/ SettingsBack
    \/ DashStart
    \/ DashCancel
    \/ DashTick
    \/ Advance

SpecFaulty == Init /\ [][NextFaulty]_vars

\* ------------------------------------------------------------ statistics
\* The storage package called directly on a stored list that carries the date
\* keys startNewSession writes.

\* Largest number of records in a stored list handed to the storage package.
MaxStatSessions == 2

\* Sample days: what time.Now() formats to, with its ISO week and calendar year.
Days ==
    { [date |-> "2024-01-01", week |-> 1,  month |-> "2024-01", year |-> 2024],
      [date |-> "2024-03-04", week |-> 10, month |-> "2024-03", year |-> 2024],
      [date |-> "2024-03-05", week |-> 10, month |-> "2024-03", year |-> 2024],
      [date |-> "2024-03-11", week |-> 11, month |-> "2024-03", year |-> 2024],
      [date |-> "2024-12-30", week |-> 1,  month |-> "2024-12", year |-> 2024] }

\* The month texts of the sample days, with the numbers they are written from.
MonthKeys ==
    { [year |-> 2024, month |-> 1,  text |-> "2024-01"],
      [year |-> 2024, month |-> 3,  text |-> "2024-03"],
      [year |-> 2024, month |-> 12, text |-> "2024-12"] }

\* fmt.Sprintf("%04d-%02d", year, month)
Sprintf(year, month) == (CHOOSE k \in MonthKeys : k.year = year /\ k.month = month).text

\* fmt.Sscanf(text, "%4d-%02d", &year, &month)
Sscanf(text) == CHOOSE k \in MonthKeys : k.text = text

\* Storage.GetSessionsByDate
GetSessionsByDate(ss, date) ==
    LET Test(s) == s.date = date IN SelectSeq(ss, Test)

\* Storage.GetWeekSessions
GetWeekSessions(ss, year, week) ==
    LET Test(s) == s.year = year /\ s.week = week IN SelectSeq(ss, Test)

\* Storage.GetMonthSessions
GetMonthSessions(ss, year, month) ==
    LET Test(s) == s.month = Sprintf(year, month) IN SelectSeq(ss, Test)

\* Storage.GetYearSessions
GetYearSessions(ss, year) ==
    LET Test(s) == s.year = year IN SelectSeq(ss, Test)

\* Storage.GetDayStats
GetDayStats(ss, date) ==
    LET found == GetSessionsByDate(ss, date)
    IN  [date |-> date,
         sessionsCount |-> Len(CompletedOf(found)),
         sessions |-> found,
         totalMinutes |-> SumMinutes(CompletedOf(found))]

\* A GetWeekStats whose nested days add planned durations.
GetWeekStatsPlannedDays(ss, year, week) ==
    LET done == CompletedOf(GetWeekSessions(ss, year, week))
        OnDate(d) == GetSessionsByDate(done, d)
    IN  [week |-> week,
         year |-> year,
         sessionsCount |-> Len(done),
         totalMinutes |-> SumMinutes(done),
         dailyStats |-> { [date |-> d,
                           sessionsCount |-> Len(OnDate(d)),
                           sessions |-> OnDate(d),
                           totalMinutes |-> SumPlanned(OnDate(d))]
                          : d \in {done[i].date : i \in 1..Len(done)} }]

\* A GetWeekStats that counts every session of the week, completed or not.
GetWeekStatsAllSessions(ss, year, week) ==
    LET done == GetWeekSessions(ss, year, week)
        OnDate(d) == GetSessionsByDate(done, d)
    IN  [week |-> week,
         year |-> year,
         sessionsCount |-> Len(done),
         totalMinutes |-> SumMinutes(done),
         dailyStats |-> { [date |-> d,
                           sessionsCount |-> Len(OnDate(d)),
                           sessions |-> OnDate(d),
                           totalMinutes |-> SumMinutes(OnDate(d))]
                          : d \in {done[i].date : i \in 1..Len(done)} }]

\* Storage.GetWeekStats; dailyStats is built by ranging over a Go map, so its
\* order is not fixed and it is kept as a set.
GetWeekStats(ss, year, week) ==
    LET done == CompletedOf(GetWeekSessions(ss, year, week))
        OnDate(d) == GetSessionsByDate(done, d)
    IN  [week |-> week,
         year |-> year,
         sessionsCount |-> Len(done),
         totalMinutes |-> SumMinutes(done),
         dailyStats |-> { [date |-> d,
                           sessionsCount |-> Len(OnDate(d)),
                           sessions |-> OnDate(d),
                           totalMinutes |-> SumMinutes(OnDate(d))]
                          : d \in {done[i].date : i \in 1..Len(done)} }]

\* A GetMonthStats whose nested weeks add planned durations.
GetMonthStatsPlannedWeeks(ss, year, month) ==
    LET done == CompletedOf(GetMonthSessions(ss, year, month))
        InWeek(w) == LET Test(s) == s.week = w IN SelectSeq(done, Test)
    IN  [month |-> Sprintf(year, month),
         year |-> year,
         sessionsCount |-> Len(done),
         totalMinutes |-> SumMinutes(done),
         weeklyStats |-> { [week |-> w,
                            year |-> year,
                            sessionsCount |-> Len(InWeek(w)),
                            totalMinutes |-> SumPlanned(InWeek(w))]
                           : w \in {done[i].week : i \in 1..Len(done)} }]

\* Storage.GetMonthStats; weeklyStats is built by ranging over a Go map.
GetMonthStats(ss, year, month) ==
    LET done == CompletedOf(GetMonthSessions(ss, year, month))
        InWeek(w) == LET Test(s) == s.week = w IN SelectSeq(done, Test)
    IN  [month |-> Sprintf(year, month),
         year |-> year,
         sessionsCount |-> Len(done),
         totalMinutes |-> SumMinutes(done),
         weeklyStats |-> { [week |-> w,
                            year |-> year,
                            sessionsCount |-> Len(InWeek(w)),
                            totalMinutes |-> SumMinutes(InWeek(w))]
                           : w \in {done[i].week : i \in 1..Len(done)} }]

\* A GetYearStats that builds a month rollup for every month of the calendar
\* it knows, with sessions or without.
GetYearStatsEveryMonth(ss, year) ==
    LET done == CompletedOf(GetYearSessions(ss, year))
    IN  [year |-> year,
         sessionsCount |-> Len(done),
         totalMinutes |-> SumMinutes(done),
         monthlyStats |-> { GetMonthStats(ss, k.year, k.month)
                            : k \in {x \in MonthKeys : x.year = year} }]

\* Storage.GetYearStats; Sscanf stores the year of each completed session's
\* month text into the year variable, which the result and the month rollups
\* then use.
GetYearStats(ss, year) ==
    LET done == CompletedOf(GetYearSessions(ss, year))
        scanned == IF done = <<>> THEN year ELSE Sscanf(done[Len(done)].month).year
    IN  [year |-> scanned,
         sessionsCount |-> Len(done),
         totalMinutes |-> SumMinutes(done),
         monthlyStats |-> { GetMonthStats(ss, scanned, m)
                            : m \in {Sscanf(done[i].month).month : i \in 1..Len(done)} }]

\* Storage.ExportAllStats: the overall statistics of the report.
ExportAllStats(ss) ==
    [totalSessions |-> Len(ss),
     completedSessions |-> Len(CompletedOf(ss)),
     totalMinutes |-> SumMinutes(CompletedOf(ss))]

\* The ids of the records handed to the storage package.
StatIds == 1..MaxStatSessions

\* How far a stored session got.
Kinds == {"completed", "cancelled", "active"}

\* The timing of the record with the given id: the first ran its 25 minutes,
\* the second carries no elapsed seconds but a ten-minute span, later ones
\* carry neither and fall back on a plan of 50 minutes.
Timing(id) ==
    IF id = 1 THEN [elapsedSeconds |-> 1500, startTime |-> 0, endTime |-> 1500, duration |-> 25]
    ELSE IF id = 2 THEN [elapsedSeconds |-> 0, startTime |-> 0, endTime |-> 600, duration |-> 25]
    ELSE [elapsedSeconds |-> 0, startTime |-> NoTime, endTime |-> NoTime, duration |-> 50]

\* A stored session record with its date keys.
StatSession(id, day, kind) ==
    [id |-> id,
     startTime |-> Timing(id).startTime,
     endTime |-> IF kind = "active" THEN NoTime ELSE Timing(id).endTime,
     duration |-> Timing(id).duration,
     completed |-> (kind = "completed"),
     date |-> day.date, week |-> day.week, month |-> day.month, year |-> day.year,
     active |-> (kind = "active"),
     elapsedSeconds |-> Timing(id).elapsedSeconds,
     paused |-> FALSE]

\* The records a stored list is made of.
StatSessions == {StatSession(id, day, kind) : id \in StatIds, day \in Days, kind \in Kinds}

\* Completed records that differ in the fields actualMinutes reads.
MinuteCases ==
    { [StatSession(1, day, "completed") EXCEPT
          !.elapsedSeconds = e, !.startTime = span[1], !.endTime = span[2], !.duration = p]
      : day \in {d \in Days : d.date = "2024-03-04"},
        e \in {0, 59, 125},
        span \in {<<NoTime, NoTime>>, <<0, 30>>, <<0, 1500>>},
        p \in {25, 50} }

\* Stored lists: records with distinct ids, and the single minute cases.
StatCollections ==
    { ss \in UNION {[1..n -> StatSessions] : n \in 0..MaxStatSessions} :
        \A i, j \in 1..Len(ss) : ss[i].id = ss[j].id => i = j }
    \cup { <<s>> : s \in MinuteCases }

\* Every variable but the stored list and the answer.
programVars ==
    <<configFile, now, phase, nextId, faulty, dashVars, tickVars, setVars, histVars,
      exportMessage, persisted>>

InitStats ==
    /\ sessions \in StatCollections
    /\ corrupt = FALSE
    /\ answer = NoAnswer
    /\ ProgramOff

\* GetAllSessions returns an error: sessions.json exists and does not parse.
ReadFails == corrupt

\* A SaveSession that goes on whatever GetAllSessions returned.
SaveReadFailsNever == FALSE

\* SaveSession returns the error of GetAllSessions before it writes.
SaveReadFails == ReadFails

\* Storage.SaveSession called with a record.
StoreSave ==
    \E s \in StatSessions :
        /\ ~SaveReadFails
        /\ sessions' = SaveSession(LoadedSessions, s)
        /\ corrupt' = FALSE
        /\ answer' = [op |-> "save", session |-> s]
        /\ UNCHANGED programVars

\* Storage.GetDayStats called with a date.
AskDay ==
    \E day \in Days :
        /\ answer' = [op |-> "day", date |-> day.date,
                      stats |-> GetDayStats(sessions, day.date)]
        /\ ~ReadFails
        /\ UNCHANGED <<sessions, corrupt, programVars>>

\* Storage.GetWeekStats called with a year and a week.
AskWeek ==
    \E day \in Days :
        /\ answer' = [op |-> "week", year |-> day.year, week |-> day.week,
                      stats |-> GetWeekStats(sessions, day.year, day.week)]
        /\ ~ReadFails
        /\ UNCHANGED <<sessions, corrupt, programVars>>

\* Storage.GetMonthStats called with a year and a month.
AskMonth ==
    \E k \in MonthKeys :
        /\ answer' = [op |-> "month", year |-> k.year, month |-> k.month,
                      stats |-> GetMonthStats(sessions, k.year, k.month)]
        /\ ~ReadFails
        /\ UNCHANGED <<sessions, corrupt, programVars>>

\* Storage.GetYearStats called with a year.
AskYear ==
    \E day \in Days :
        /\ answer' = [op |-> "year", year |-> day.year,
                      stats |-> GetYearStats(sessions, day.year)]
        /\ ~ReadFails
        /\ UNCHANGED <<sessions, corrupt, programVars>>

\* Storage.ExportAllStats called.
AskExport ==
    /\ ~ReadFails
    /\ answer' = [op |-> "export", stats |-> ExportAllStats(sessions)]
    /\ UNCHANGED <<sessions, corrupt, programVars>>

\* The program state the storage package does not touch.
otherVars == <<now, phase, nextId, faulty, dashVars, tickVars, setVars, histVars, exportMessage>>

\* Storage.DeactivateAllSessions called; the answer keeps the list found by the
\* first of the calls made in a row, and whether this was the first.
StoreDeactivate ==
    /\ ~ReadFails
    /\ sessions' = DeactivateAllSessions(sessions)
    /\ answer' = [op |-> "deactivate",
                  before |-> IF answer.op = "deactivate" THEN answer.before ELSE sessions,
                  again |-> (answer.op = "deactivate")]
    /\ UNCHANGED <<corrupt, configFile, persisted, otherVars>>

\* Storage.GetActiveSession called.
AskActive ==
    /\ ~ReadFails
    /\ answer' = [op |-> "active", session |-> GetActiveSession(sessions)]
    /\ UNCHANGED <<sessions, corrupt, configFile, persisted, otherVars>>

\* The calls that read sessions.json.
SessionCalls == {"save", "deactivate", "active", "day", "week", "month", "year", "export"}

\* A call on a session file that does not parse returns the error.
StoreRefuses ==
    /\ \E call \in SessionCalls :
         /\ IF call = "save" THEN SaveReadFails ELSE ReadFails
         /\ answer' = [op |-> "error", call |-> call]
    /\ UNCHANGED <<sessions, corrupt, configFile, persisted, otherVars>>

\* A ResetAllData that leaves the sessions that were active.
ResetAllDataKeepsActive(ss) == LET Test(s) == s.active IN SelectSeq(ss, Test)

\* Storage.ResetAllData: what GetAllSessions reads once sessions.json is removed.
ResetAllData(ss) == <<>>

\* Storage.ResetAllData called: both files are removed.
StoreReset ==
    /\ sessions' = ResetAllData(sessions)
    /\ corrupt' = FALSE
    /\ configFile' = NoConfig
    /\ answer' = [op |-> "reset",
                  hadActive |-> (~corrupt /\ GetActiveSession(sessions) # NoSession)]
    /\ UNCHANGED <<persisted, otherVars>>

\* Storage.GetConfig called: the default is written when there is no config.
StoreGetConfig ==
    /\ configFile' = GetConfig(configFile)
    /\ persisted' = TRUE
    /\ answer' = [op |-> "config", config |-> GetConfig(configFile)]
    /\ UNCHANGED <<sessions, corrupt, otherVars>>

\* The configs handed to Storage.SaveConfig.
ConfigInputs ==
    {DefaultConfig,
     [SessionDuration |-> 25, DailySessionGoal |-> 4, WorkStartHour |-> 9, WorkEndHour |-> 17]}

\* Storage.SaveConfig called.
StoreSaveConfig ==
    /\ \E c \in ConfigInputs :
         /\ configFile' = c
         /\ answer' = [op |-> "saveconfig", config |-> c]
    /\ persisted' = TRUE
    /\ UNCHANGED <<sessions, corrupt, otherVars>>

\* Storage.IsFirstTime called.
AskFirstTime ==
    /\ answer' = [op |-> "first", result |-> IsFirstTime]
    /\ UNCHANGED <<sessions, corrupt, configFile, persisted, otherVars>>

NextStats ==
    \/ StoreSave
    \/ AskDay
    \/ AskWeek
    \/ AskMonth
    \/ AskYear
    \/ AskExport

SpecStats == InitStats /\ [][NextStats]_vars

\* The storage package on a store that may not parse, with its config file.
InitStore ==
    /\ sessions \in StatCollections
    /\ corrupt \in BOOLEAN
    /\ answer = NoAnswer
    /\ ProgramOff

NextStore ==
    \/ NextStats
    \/ StoreDeactivate
    \/ AskActive
    \/ StoreRefuses
    \/ StoreReset
    \/ StoreGetConfig
    \/ StoreSaveConfig
    \/ AskFirstTime

SpecStore == InitStore /\ [][NextStore]_vars

\* ------------------------------------------------------------ properties
\* The stored record with the given id.
Stored(id) == sessions[IndexOfID(sessions, id)]

\* The stored records that are marked active.
ActiveRecords == {i \in 1..Len(sessions) : sessions[i].active}

\* C1: whatever sequence of start, tick, pause, resume, cancel, complete, quit
\* and dashboard re-creation has happened, the stored list holds at most one
\* record that is marked active.
C1_AtMostOneActive == Cardinality(ActiveRecords) <= 1

\* A dashboard re-created on a store that holds an ended session and, after
\* it, a session that was started later, paused, and is the one active record.
C1_Witness ==
    /\ phase = "dashboard" /\ created
    /\ Len(sessions) = 2
    /\ ~sessions[1].active /\ sessions[2].active /\ sessions[2].paused
    /\ Cardinality(ActiveRecords) = 1
    /\ timerRunning /\ timerPaused
    /\ sessions[2].elapsedSeconds > 0

\* C2: a session started in this dashboard run and never paused is still
\* running after each of its first D*60-1 ticks and ends on tick D*60: the
\* stored record then has elapsedSeconds = D*60, completed set and active
\* cleared, and the in-memory timer is idle.
C2_UnpausedRunCompletesOnTime ==
    [][(DashTick /\ undisturbed) =>
         LET planned == activeSession.duration * SecondsPerMinute IN
         IF counted + 1 = planned
         THEN /\ ~timerRunning' /\ ~timerPaused' /\ timerElapsed' = 0
              /\ activeSession' = NoSession
              /\ sessions'[IndexOfID(sessions', activeSession.id)].elapsedSeconds = planned
              /\ sessions'[IndexOfID(sessions', activeSession.id)].completed
              /\ ~sessions'[IndexOfID(sessions', activeSession.id)].active
         ELSE /\ counted + 1 < planned
              /\ timerRunning' /\ ~timerPaused'
              /\ ~sessions'[IndexOfID(sessions', activeSession.id)].completed
              /\ sessions'[IndexOfID(sessions', activeSession.id)].active]_vars

\* A one-minute session has completed sixty seconds after it was started.
C2_Witness ==
    /\ phase = "dashboard" /\ ~timerRunning /\ timerElapsed = 0
    /\ \E i \in 1..Len(sessions) :
        /\ sessions[i].completed /\ ~sessions[i].active
        /\ sessions[i].elapsedSeconds = sessions[i].duration * SecondsPerMinute
        /\ sessions[i].endTime = sessions[i].startTime + sessions[i].duration * SecondsPerMinute

\* C3: within one dashboard run the in-memory elapsed seconds are the seconds
\* the timer was set up with plus the ticks processed while it was running and
\* not paused; a tick processed while paused leaves them unchanged.
C3_ElapsedCountsUnpausedTicks ==
    (phase = "dashboard" /\ timerRunning) => timerElapsed = counted

\* A session that was paused for two seconds has completed with sixty seconds.
C3_Witness ==
    \E i \in 1..Len(sessions) :
        /\ sessions[i].completed
        /\ sessions[i].elapsedSeconds = 60
        /\ sessions[i].endTime - sessions[i].startTime = 62

\* C4: every stored record that is completed has elapsedSeconds no larger
\* than its planned duration in seconds, also when it completed after the
\* dashboard recovered it, not paused, from the store.
C4_CompletedWithinPlan ==
    \A i \in 1..Len(sessions) :
        sessions[i].completed =>
            sessions[i].elapsedSeconds <= sessions[i].duration * SecondsPerMinute

\* C5: a dashboard created on a store with an active session that is not
\* paused starts from min(now - startTime, planned seconds); when the wall
\* clock has reached the planned duration the first tick completes it, so a
\* running timer never shows more than the planned seconds.  (The tick armed by
\* Init is still waiting: the dashboard was created in the current second.)
C5_RecoveryClampsWallClock ==
    /\ ( /\ phase = "dashboard" /\ created /\ tickWait = 1
         /\ GetActiveSession(sessions) # NoSession
         /\ ~GetActiveSession(sessions).paused)
       => /\ timerRunning /\ ~timerPaused
          /\ timerElapsed =
                 Min(now - GetActiveSession(sessions).startTime,
                     GetActiveSession(sessions).duration * SecondsPerMinute)
    /\ (phase = "dashboard" /\ timerRunning)
       => timerElapsed <= activeSession.duration * SecondsPerMinute

\* A dashboard just created more than a minute after a one-minute session,
\* stored active and not paused, was started.
C5_Witness ==
    /\ phase = "dashboard" /\ created /\ tickWait = 1
    /\ timerRunning /\ ~timerPaused
    /\ now - activeSession.startTime > activeSession.duration * SecondsPerMinute
    /\ timerElapsed = activeSession.duration * SecondsPerMinute

\* C6: a dashboard created on a store with an active session that is paused
\* starts from exactly the stored elapsedSeconds with the timer paused, and as
\* long as no key reaches it (so until the session is resumed) no tick is armed.
C6_PausedRecoveryKeepsElapsed ==
    ( /\ phase = "dashboard" /\ created
      /\ GetActiveSession(sessions) # NoSession
      /\ GetActiveSession(sessions).paused)
    => /\ timerRunning /\ timerPaused
       /\ timerElapsed = GetActiveSession(sessions).elapsedSeconds
       /\ tickDue + tickWait = 0

\* A dashboard created at second 50 on a session that was paused at 25
\* seconds, ten seconds later and still untouched.
C6_Witness ==
    /\ phase = "dashboard" /\ created
    /\ timerRunning /\ timerPaused
    /\ timerElapsed = 25
    /\ now - activeSession.startTime = 60
    /\ tickDue + tickWait = 0

\* C7: after the user quits with a session in flight, running or paused, the
\* stored record has elapsedSeconds equal to the in-memory elapsed seconds,
\* paused set, and is still active.
C7_QuitPersistsPaused ==
    (phase = "off" /\ lastExit.kind = "quit") =>
        /\ Stored(lastExit.id).elapsedSeconds = lastExit.elapsed
        /\ Stored(lastExit.id).paused
        /\ Stored(lastExit.id).active

\* C8: after the user leaves for the settings screen with a session in
\* flight, the stored record has elapsedSeconds equal to the in-memory elapsed
\* seconds and paused set.
C8_SettingsPersistsPaused ==
    (phase = "settings" /\ lastExit.kind = "settings") =>
        /\ Stored(lastExit.id).elapsedSeconds = lastExit.elapsed
        /\ Stored(lastExit.id).paused

\* C9: the dashboard created after the user quit during a running session
\* with elapsed seconds e shows the session paused with exactly e, whatever the
\* wall-clock time between quit and restart.
C9_RestartAfterQuitShowsPaused ==
    (phase = "dashboard" /\ created /\ lastExit.kind = "quit" /\ ~lastExit.paused) =>
        /\ timerRunning /\ timerPaused
        /\ timerElapsed = lastExit.elapsed

\* C10: pausing a running timer stores paused = true and elapsedSeconds equal
\* to the in-memory elapsed seconds at that moment, not the last ten-tick
\* checkpoint: while the timer is paused the store holds exactly that.
C10_PausePersistsElapsed ==
    (phase = "dashboard" /\ timerRunning /\ timerPaused) =>
        /\ Stored(activeSession.id).paused
        /\ Stored(activeSession.id).elapsedSeconds = timerElapsed

\* A timer paused 37 seconds into a session started at 0, in that same second.
C10_Witness ==
    /\ phase = "dashboard" /\ ~created
    /\ timerRunning /\ timerPaused
    /\ timerElapsed = 37 /\ now = activeSession.startTime + 37
    /\ Stored(activeSession.id).elapsedSeconds = 37
    /\ Stored(activeSession.id).paused

\* A stored record of a session that was cancelled.
Cancelled(r) == ~r.active /\ ~r.completed /\ r.endTime # NoTime

\* The session and timer fields of the dashboard, the store and the armed ticks.
SessionState ==
    <<sessions, activeSession, timerRunning, timerPaused, timerElapsed, timerDuration,
      tickDue, tickWait>>

\* C11: cancelling a running or paused session stores its record with endTime
\* set to now, completed and active cleared; from then on no event that
\* reaches the dashboard (tick, pause, resume, start, cancel) changes any field
\* of a cancelled record, and GetActiveSession never returns it.
C11_CancelIsTerminal ==
    [][ /\ (DashCancel /\ activeSession # NoSession)
           => /\ sessions'[IndexOfID(sessions', activeSession.id)].endTime = now
              /\ ~sessions'[IndexOfID(sessions', activeSession.id)].completed
              /\ ~sessions'[IndexOfID(sessions', activeSession.id)].active
              /\ Len(sessions') = Len(sessions)
        /\ (phase = "dashboard" /\ phase' = "dashboard")
           => \A i \in 1..Len(sessions) :
                Cancelled(sessions[i])
                => /\ Len(sessions') >= i
                   /\ sessions'[i] = sessions[i]
                   /\ GetActiveSession(sessions') # sessions[i] ]_vars

\* A session cancelled while paused, followed in the store by a later session
\* that has been started and has run for ten seconds or more.
C11_Witness ==
    /\ phase = "dashboard"
    /\ Len(sessions) = 2
    /\ Cancelled(sessions[1]) /\ sessions[1].paused
    /\ sessions[2].active
    /\ timerRunning /\ timerElapsed >= 10

\* C12: Start is accepted only while no session is in flight; it deactivates
\* every stored record and appends exactly one new record that is active, not
\* paused, not completed, with elapsedSeconds 0 and the configured duration.
\* A Start key while a session is running or paused creates no record and
\* changes no session or timer state.
C12_StartOnlyFromIdle ==
    [][ /\ DashStart
           => /\ ~timerRunning
              /\ Len(sessions') = Len(sessions) + 1
              /\ \A i \in 1..Len(sessions) :
                    sessions'[i] = [sessions[i] EXCEPT !.active = FALSE]
              /\ sessions'[Len(sessions')].active
              /\ ~sessions'[Len(sessions')].paused
              /\ ~sessions'[Len(sessions')].completed
              /\ sessions'[Len(sessions')].elapsedSeconds = 0
              /\ sessions'[Len(sessions')].startTime = now
              /\ sessions'[Len(sessions')].duration = configFile.SessionDuration
              /\ \A i \in 1..Len(sessions) :
                    sessions[i].id # sessions'[Len(sessions')].id
        /\ (DashIgnored /\ timerRunning) => UNCHANGED SessionState ]_vars

\* The second session, just started after the first one was cancelled.
C12_Witness ==
    /\ phase = "dashboard"
    /\ Len(sessions) = 2
    /\ ~sessions[1].active
    /\ sessions[2].active /\ ~sessions[2].paused /\ ~sessions[2].completed
    /\ sessions[2].elapsedSeconds = 0
    /\ timerRunning /\ ~timerPaused /\ timerElapsed = 0 /\ undisturbed
    /\ activeSession = sessions[2]

\* C13: Pause acts only on a timer that is running and not paused, Resume only
\* on a paused one; in every other state the key changes no in-memory field,
\* writes nothing to the store and arms no tick.
C13_PauseResumeOnlyWhenValid ==
    [][ /\ DashPause => (timerRunning /\ ~timerPaused)
        /\ DashResume => (timerRunning /\ timerPaused)
        /\ DashIgnored
           => UNCHANGED <<SessionState, config, viewState, helpQuit, shouldQuit,
                          openSettings, configFile>> ]_vars

\* A dashboard created on a paused session, in the second the session was
\* started, after a key that was ignored: no tick is armed and nothing changed.
C13_Witness ==
    /\ phase = "dashboard" /\ ~created
    /\ timerRunning /\ timerPaused
    /\ now = activeSession.startTime
    /\ tickDue + tickWait = 0
    /\ Stored(activeSession.id) = activeSession

\* C14: a tick delivered while no session is running, or while it is paused,
\* changes no session or timer field and arms no tick; a tick is armed again
\* only by a tick that was counted and did not complete the session.
C14_TickChainEndsWhenNotCounting ==
    [][DashTick
       => /\ tickDue' = tickDue - 1
          /\ IF timerRunning /\ ~timerPaused
             THEN \/ timerRunning' /\ tickWait' = tickWait + 1
                  \/ ~timerRunning' /\ tickWait' = tickWait
             ELSE UNCHANGED <<sessions, activeSession, timerRunning, timerPaused,
                              timerElapsed, timerDuration, tickWait>> ]_vars

\* A session paused two seconds after it was started, one tick counted: the
\* tick that was pending at the pause has been delivered and no tick is left.
C14_Witness ==
    /\ phase = "dashboard" /\ ~created
    /\ timerRunning /\ timerPaused
    /\ timerElapsed = 1
    /\ now = activeSession.startTime + 2
    /\ tickDue + tickWait = 0

\* C15, as claimed: after every tick counted while a session is running and
\* not paused, the in-memory elapsed seconds exceed the stored elapsedSeconds
\* by fewer than ten, from session start and from dashboard creation with a
\* recovered session.
C15_CheckpointBoundsLoss ==
    [][(DashTick /\ timerRunning /\ ~timerPaused /\ timerRunning')
       => timerElapsed' - sessions'[IndexOfID(sessions', activeSession'.id)].elapsedSeconds
            < CheckpointEvery]_vars

\* C15, amended: the bound holds once the stored elapsedSeconds were written in
\* this dashboard run (at start, at a pause, at a checkpoint) or the timer was
\* set up from a paused record; the handler writes whenever the elapsed value
\* is a multiple of ten.
C15_SyncedCheckpointBound ==
    (phase = "dashboard" /\ timerRunning /\ ~timerPaused /\ synced)
    => /\ timerElapsed - Stored(activeSession.id).elapsedSeconds < CheckpointEvery
       /\ timerElapsed - Stored(activeSession.id).elapsedSeconds >= 0

\* Nine counted seconds after the checkpoint at ten.
C15_Witness ==
    /\ phase = "dashboard" /\ timerRunning /\ ~timerPaused /\ synced
    /\ timerElapsed = 19
    /\ Stored(activeSession.id).elapsedSeconds = 10

\* The completed sessions of the stored list.
CompletedSessions == {sessions[i] : i \in {j \in 1..Len(sessions) : sessions[j].completed}}

\* The only completed session among the sessions of a day rollup.
OnlyCompleted(stats) == CompletedOf(stats.sessions)[1]

\* The elapsed seconds and the time span of a session, in whole minutes.
ElapsedMinutes(s) == s.elapsedSeconds \div SecondsPerMinute
SpanMinutes(s) == (s.endTime - s.startTime) \div SecondsPerMinute
BothTimesSet(s) == s.startTime # NoTime /\ s.endTime # NoTime

\* C16, as claimed: the minutes of a completed session are elapsedSeconds / 60
\* whenever elapsedSeconds is not zero, else the whole minutes between
\* startTime and endTime when both are set, else the planned duration.
C16_MinutesByElapsedSeconds ==
    (answer.op = "day" /\ answer.stats.sessionsCount = 1)
    => answer.stats.totalMinutes =
         IF OnlyCompleted(answer.stats).elapsedSeconds # 0
         THEN ElapsedMinutes(OnlyCompleted(answer.stats))
         ELSE IF BothTimesSet(OnlyCompleted(answer.stats))
              THEN SpanMinutes(OnlyCompleted(answer.stats))
              ELSE OnlyCompleted(answer.stats).duration

\* C16, amended: the minutes of a completed session are elapsedSeconds / 60
\* when that quotient is not zero, else the whole minutes between startTime
\* and endTime when both are set and that number is not zero, else the planned
\* duration.
C16_MinutesByQuotient ==
    (answer.op = "day" /\ answer.stats.sessionsCount = 1)
    => answer.stats.totalMinutes =
         IF ElapsedMinutes(OnlyCompleted(answer.stats)) # 0
         THEN ElapsedMinutes(OnlyCompleted(answer.stats))
         ELSE IF BothTimesSet(OnlyCompleted(answer.stats))
                 /\ SpanMinutes(OnlyCompleted(answer.stats)) # 0
              THEN SpanMinutes(OnlyCompleted(answer.stats))
              ELSE OnlyCompleted(answer.stats).duration

\* A day with one completed session of 59 elapsed seconds and a span of 25
\* minutes: the day's total is 25.
C16_Witness ==
    /\ answer.op = "day" /\ answer.stats.sessionsCount = 1
    /\ OnlyCompleted(answer.stats).elapsedSeconds = 59
    /\ OnlyCompleted(answer.stats).endTime = 1500
    /\ answer.stats.totalMinutes = 25

\* The stored list without the record of the given id.
Without(id) == LET Test(r) == r.id # id IN SelectSeq(sessions, Test)

\* The total of the nested rollup with the given key, 0 when there is none.
NestedDayMinutes(stats, date) ==
    IF \E d \in stats.dailyStats : d.date = date
    THEN (CHOOSE d \in stats.dailyStats : d.date = date).totalMinutes
    ELSE 0
NestedWeekMinutes(stats, week) ==
    IF \E w \in stats.weeklyStats : w.week = week
    THEN (CHOOSE w \in stats.weeklyStats : w.week = week).totalMinutes
    ELSE 0

\* What a session adds to each total: the total with it minus the total of
\* the same list without it.
DayContribution(s) ==
    GetDayStats(sessions, s.date).totalMinutes
    - GetDayStats(Without(s.id), s.date).totalMinutes
WeekContribution(s) ==
    GetWeekStats(sessions, s.year, s.week).totalMinutes
    - GetWeekStats(Without(s.id), s.year, s.week).totalMinutes
WeekDayContribution(s) ==
    NestedDayMinutes(GetWeekStats(sessions, s.year, s.week), s.date)
    - NestedDayMinutes(GetWeekStats(Without(s.id), s.year, s.week), s.date)
MonthContribution(s) ==
    GetMonthStats(sessions, Sscanf(s.month).year, Sscanf(s.month).month).totalMinutes
    - GetMonthStats(Without(s.id), Sscanf(s.month).year, Sscanf(s.month).month).totalMinutes
MonthWeekContribution(s) ==
    NestedWeekMinutes(GetMonthStats(sessions, Sscanf(s.month).year, Sscanf(s.month).month),
                      s.week)
    - NestedWeekMinutes(GetMonthStats(Without(s.id), Sscanf(s.month).year,
                                      Sscanf(s.month).month),
                        s.week)
YearContribution(s) ==
    GetYearStats(sessions, s.year).totalMinutes
    - GetYearStats(Without(s.id), s.year).totalMinutes
ExportContribution(s) ==
    ExportAllStats(sessions).totalMinutes - ExportAllStats(Without(s.id)).totalMinutes

\* C17: a completed session adds the same number of minutes to the day total,
\* the week total and its nested day, the month total and its nested week,
\* the year total and the overall total of the export; the answer a call
\* returned is the total the contribution is taken from.
C17_SameMinutesAtEveryLevel ==
    /\ \A s \in CompletedSessions :
         /\ WeekContribution(s) = DayContribution(s)
         /\ WeekDayContribution(s) = DayContribution(s)
         /\ MonthContribution(s) = DayContribution(s)
         /\ MonthWeekContribution(s) = DayContribution(s)
         /\ YearContribution(s) = DayContribution(s)
         /\ ExportContribution(s) = DayContribution(s)
         /\ DayContribution(s) > 0
    /\ answer.op = "day" => answer.stats = GetDayStats(sessions, answer.date)
    /\ answer.op = "week" => answer.stats = GetWeekStats(sessions, answer.year, answer.week)
    /\ answer.op = "month" => answer.stats = GetMonthStats(sessions, answer.year, answer.month)
    /\ answer.op = "year" => answer.stats = GetYearStats(sessions, answer.year)
    /\ answer.op = "export" => answer.stats = ExportAllStats(sessions)

\* Month statistics over two completed sessions of different minutes in the
\* same month, week and day.
C17_Witness ==
    /\ answer.op = "month"
    /\ answer.stats.sessionsCount = 2
    /\ answer.stats.totalMinutes = 35
    /\ \E w \in answer.stats.weeklyStats : w.sessionsCount = 2 /\ w.totalMinutes = 35
    /\ \E s \in CompletedSessions : DayContribution(s) = 10

\* C18: every nested day rollup of the week statistics has the sessionsCount
\* and the totalMinutes that the day statistics of its date have.
C18_NestedDayEqualsDayStats ==
    answer.op = "week"
    => \A d \in answer.stats.dailyStats :
          /\ d.sessionsCount = GetDayStats(sessions, d.date).sessionsCount
          /\ d.totalMinutes = GetDayStats(sessions, d.date).totalMinutes

\* Week statistics with two nested days of different totals.
C18_Witness ==
    /\ answer.op = "week"
    /\ Cardinality(answer.stats.dailyStats) = 2
    /\ \E d \in answer.stats.dailyStats : d.totalMinutes = 25 /\ d.sessionsCount = 1
    /\ \E d \in answer.stats.dailyStats : d.totalMinutes = 10 /\ d.sessionsCount = 1

\* The positions of the completed records with the given year and week keys.
CompletedInWeek(year, week) ==
    {i \in 1..Len(sessions) :
        sessions[i].completed /\ sessions[i].year = year /\ sessions[i].week = week}

\* The actual minutes of the records at a set of positions, added up.
RECURSIVE MinutesAt(_)
MinutesAt(S) ==
    IF S = {} THEN 0
    ELSE LET i == CHOOSE x \in S : TRUE
         IN  ActualMinutes(sessions[i]) + MinutesAt(S \ {i})

\* C19: the week statistics count the completed sessions whose year and week
\* keys match, add up their actual minutes, and hold exactly one nested day
\* for each distinct date among them; sessions that are not completed add
\* nothing.
C19_WeekStatsCountCompleted ==
    answer.op = "week"
    => /\ answer.stats.sessionsCount
            = Cardinality(CompletedInWeek(answer.year, answer.week))
       /\ answer.stats.totalMinutes = MinutesAt(CompletedInWeek(answer.year, answer.week))
       /\ \A i \in CompletedInWeek(answer.year, answer.week) :
            Cardinality({d \in answer.stats.dailyStats : d.date = sessions[i].date}) = 1
       /\ \A d \in answer.stats.dailyStats :
            \E i \in CompletedInWeek(answer.year, answer.week) : sessions[i].date = d.date

\* Week statistics over a week that holds one completed session and one that
\* is not completed.
C19_Witness ==
    /\ answer.op = "week"
    /\ answer.stats.sessionsCount = 1
    /\ Cardinality({i \in 1..Len(sessions) :
                        sessions[i].year = answer.year /\ sessions[i].week = answer.week}) = 2
    /\ answer.stats.totalMinutes = 10

\* C20: SaveSession replaces the record with the same id at its position, or
\* appends the record when the id is not stored; every other record and the
\* order stay as they were, and afterwards exactly one record has the id.
C20_SaveReplacesOrAppends ==
    [][StoreSave
       => /\ IF IndexOfID(sessions, answer'.session.id) # 0
             THEN /\ Len(sessions') = Len(sessions)
                  /\ sessions'[IndexOfID(sessions, answer'.session.id)] = answer'.session
                  /\ \A j \in 1..Len(sessions) :
                        j # IndexOfID(sessions, answer'.session.id)
                        => sessions'[j] = sessions[j]
             ELSE /\ Len(sessions') = Len(sessions) + 1
                  /\ sessions'[Len(sessions')] = answer'.session
                  /\ \A j \in 1..Len(sessions) : sessions'[j] = sessions[j]
          /\ Cardinality({j \in 1..Len(sessions') :
                             sessions'[j].id = answer'.session.id}) = 1 ]_vars

\* The first of two records was saved last: it was replaced where it stood.
C20_Witness ==
    /\ answer.op = "save"
    /\ Len(sessions) = 2
    /\ sessions[1] = answer.session
    /\ sessions[2].id # answer.session.id

\* C21: DeactivateAllSessions called twice in a row leaves the stored list
\* that one call leaves, and a call changes nothing but the active flag, which
\* it clears on every record: same records, same order, other fields kept.
C21_DeactivateTwiceAsOnce ==
    answer.op = "deactivate"
    => /\ Len(sessions) = Len(answer.before)
       /\ \A i \in 1..Len(sessions) :
             sessions[i] = [answer.before[i] EXCEPT !.active = FALSE]

\* The second of two calls in a row on a list of two records, one active.
C21_Witness ==
    /\ answer.op = "deactivate" /\ answer.again
    /\ Len(answer.before) = 2
    /\ \E i \in 1..2 : answer.before[i].active
    /\ \A i \in 1..2 : ~sessions[i].active

\* The positions of the stored records that are active and not completed.
InFlight == {i \in 1..Len(sessions) : sessions[i].active /\ ~sessions[i].completed}

\* C22: GetActiveSession returns none exactly when no stored record is active
\* and not completed; otherwise it returns a stored record that is active and
\* not completed, and while the dashboard's timer is running or paused that
\* record is the one of the session in flight.  dashboard.New takes its
\* session from it.
C22_GetActiveIsInFlight ==
    /\ (GetActiveSession(sessions) = NoSession) <=> (InFlight = {})
    /\ GetActiveSession(sessions) # NoSession
       => \E i \in InFlight : sessions[i] = GetActiveSession(sessions)
    /\ (phase = "dashboard" /\ timerRunning)
       => /\ GetActiveSession(sessions) # NoSession
          /\ GetActiveSession(sessions).id = activeSession.id
    /\ (phase = "dashboard" /\ created) => activeSession = GetActiveSession(sessions)

\* A dashboard created on a store whose first record was cancelled and whose
\* second is the paused session in flight.
C22_Witness ==
    /\ phase = "dashboard" /\ created
    /\ Len(sessions) = 2
    /\ Cancelled(sessions[1])
    /\ timerRunning /\ timerPaused
    /\ activeSession = sessions[2]

\* C23: on a session file that does not parse, SaveSession,
\* DeactivateAllSessions, GetActiveSession and the period and statistics
\* queries return an error and leave the file as it is.
C23_MalformedStoreIsKept ==
    [][(corrupt /\ answer' # answer
          /\ answer'.op \notin {"reset", "config", "saveconfig", "first"})
       => /\ answer'.op = "error"
          /\ corrupt'
          /\ sessions' = sessions]_vars

\* SaveSession has returned the error on a file that does not parse.
C23_Witness ==
    /\ corrupt
    /\ answer.op = "error" /\ answer.call = "save"

\* C25, as claimed: IsFirstTime is true exactly when no config has ever been
\* written, by SaveConfig or by GetConfig's default, also after ResetAllData.
C25_FirstRunIffNeverPersisted ==
    answer.op = "first" => (answer.result <=> ~persisted)

\* C25, amended: IsFirstTime is true exactly when no config is stored now, so
\* it is true as long as none was ever written and true again after
\* ResetAllData removed the one that was.
C25_FirstRunIffNoConfigStored ==
    answer.op = "first"
    => /\ answer.result <=> (configFile = NoConfig)
       /\ ~persisted => answer.result

\* IsFirstTime reports a first run on a store whose config was written before.
C25_Witness ==
    /\ answer.op = "first" /\ answer.result
    /\ persisted

\* Every rollup of the stored list is empty.
NoStatistics ==
    /\ \A day \in Days :
         /\ GetSessionsByDate(sessions, day.date) = <<>>
         /\ GetWeekSessions(sessions, day.year, day.week) = <<>>
         /\ GetYearSessions(sessions, day.year) = <<>>
         /\ GetDayStats(sessions, day.date).sessionsCount = 0
         /\ GetDayStats(sessions, day.date).totalMinutes = 0
         /\ GetWeekStats(sessions, day.year, day.week).sessionsCount = 0
         /\ GetWeekStats(sessions, day.year, day.week).totalMinutes = 0
         /\ GetYearStats(sessions, day.year).sessionsCount = 0
         /\ GetYearStats(sessions, day.year).totalMinutes = 0
    /\ \A k \in MonthKeys :
         /\ GetMonthSessions(sessions, k.year, k.month) = <<>>
         /\ GetMonthStats(sessions, k.year, k.month).sessionsCount = 0
         /\ GetMonthStats(sessions, k.year, k.month).totalMinutes = 0
    /\ ExportAllStats(sessions).completedSessions = 0
    /\ ExportAllStats(sessions).totalMinutes = 0

\* C28: after ResetAllData the store holds no session and no config: every
\* period query is empty, GetActiveSession returns none and every rollup has
\* count 0 and total 0, also when a session was active at the reset.
C28_ResetLeavesNothing ==
    answer.op = "reset"
    => /\ sessions = <<>>
       /\ ~corrupt
       /\ configFile = NoConfig
       /\ GetActiveSession(sessions) = NoSession
       /\ NoStatistics

\* ResetAllData was called on a store with an active session and a config.
C28_Witness ==
    /\ answer.op = "reset" /\ answer.hadActive
    /\ persisted
    /\ sessions = <<>> /\ configFile = NoConfig

\* C24, as claimed: when the session file does not parse at the start of the
\* application, startup halts: no dashboard runs on the malformed store and no
\* session is started on top of it.
C24_MalformedStoreHaltsStartup ==
    corrupt => (phase # "dashboard" /\ ~timerRunning)

\* The persisted config is within the ranges the settings screen enforces.
ConfigInRange(c) ==
    /\ c.SessionDuration >= MinSessionDuration /\ c.SessionDuration <= MaxSessionDuration
    /\ c.DailySessionGoal >= MinDailyGoal /\ c.DailySessionGoal <= MaxDailyGoal
    /\ c.WorkStartHour >= MinHour /\ c.WorkStartHour <= MaxHour
    /\ c.WorkEndHour >= MinHour /\ c.WorkEndHour <= MaxHour
    /\ c.WorkEndHour > c.WorkStartHour

\* C26: after any sequence of settings save attempts, resets and default
\* creations the persisted config, when there is one, has a session duration
\* in 1..180, a daily goal in 1..24, both hours in 0..23 and the end hour
\* after the start hour.
C26_PersistedConfigInRange ==
    configFile # NoConfig => ConfigInRange(configFile)

\* A config typed in the settings screen has been saved and the dashboard
\* runs on it.
C26_Witness ==
    /\ configFile # NoConfig /\ configFile # DefaultConfig
    /\ phase = "dashboard"
    /\ persisted

\* C27, as claimed: a save attempt that fails a check of saveConfig writes
\* nothing, keeps the persisted and the in-memory config, sets an error
\* message and leaves the settings screen open.
C27_RejectedSaveKeepsAllAndReports ==
    [][SettingsRejected
       => /\ configFile' = configFile
          /\ settingsConfig' = settingsConfig
          /\ phase' = phase
          /\ errorMsg' # ""]_vars

\* C29, as claimed: when the write to the downloads directory fails the
\* report is written to the application data directory, and the export
\* reports a failure only if that second write fails too.
C29_FallbackToDataDirectory ==
    (exportMessage.shown /\ DownloadsDir \in exportMessage.failed)
    => /\ exportMessage.success => exportMessage.path = DataDir
       /\ ~exportMessage.success <=> Cardinality(exportMessage.failed) = 2

\* C29, amended: when the write to the downloads directory fails the report
\* is written to the user's home directory, and the export reports a failure
\* only if that second write fails too.
C29_FallbackToHomeDirectory ==
    (exportMessage.shown /\ DownloadsDir \in exportMessage.failed)
    => /\ exportMessage.success => exportMessage.path = HomeDir
       /\ ~exportMessage.success <=> exportMessage.failed = {DownloadsDir, HomeDir}
       /\ ~exportMessage.success => exportMessage.message = "Failed to save file"

\* The dashboard shows a successful export whose first write had failed.
C29_Witness ==
    /\ phase = "dashboard"
    /\ exportMessage.shown /\ exportMessage.success
    /\ exportMessage.failed = {DownloadsDir}

\* The session with this id runs on the dashboard and was never paused,
\* cancelled or left since it was started.
RunningSession(id) ==
    /\ phase = "dashboard"
    /\ timerRunning /\ ~timerPaused
    /\ undisturbed
    /\ activeSession # NoSession /\ activeSession.id = id

\* The record with this id in the list ss is stored as completed.
CompletedIn(ss, id) ==
    \E i \in 1..Len(ss) : ss[i].id = id /\ ss[i].completed /\ ~ss[i].active

\* The record with this id in the list ss is stored as cancelled.
CancelledIn(ss, id) ==
    \E i \in 1..Len(ss) : ss[i].id = id /\ Cancelled(ss[i])

\* The record with this id in the list ss is stored as in flight.
InFlightIn(ss, id) ==
    \E i \in 1..Len(ss) : ss[i].id = id /\ ss[i].active /\ ~ss[i].completed

\* The session with this id was paused or cancelled, or the dashboard was left.
Interrupted(id) ==
    \/ phase # "dashboard"
    \/ timerRunning /\ timerPaused
    \/ CancelledIn(sessions, id)

RECURSIVE SumCounts(_)
SumCounts(S) ==
    IF S = {} THEN 0
    ELSE LET x == CHOOSE y \in S : TRUE IN x.sessionsCount + SumCounts(S \ {x})

RECURSIVE SumTotals(_)
SumTotals(S) ==
    IF S = {} THEN 0
    ELSE LET x == CHOOSE y \in S : TRUE IN x.totalMinutes + SumTotals(S \ {x})

\* C37: the sessionsCount and the totalMinutes of the week, month and year
\* statistics are the sums over their nested rollups (days of the week, weeks
\* of the month, months of the year), and no nested rollup is empty or appears
\* twice for the same day, week or month.
C37_ParentIsSumOfNested ==
    /\ answer.op = "week"
       => /\ answer.stats.sessionsCount = SumCounts(answer.stats.dailyStats)
          /\ answer.stats.totalMinutes = SumTotals(answer.stats.dailyStats)
          /\ \A d \in answer.stats.dailyStats : d.sessionsCount > 0 /\ d.sessions # <<>>
          /\ \A d, e \in answer.stats.dailyStats : d.date = e.date => d = e
    /\ answer.op = "month"
       => /\ answer.stats.sessionsCount = SumCounts(answer.stats.weeklyStats)
          /\ answer.stats.totalMinutes = SumTotals(answer.stats.weeklyStats)
          /\ \A w \in answer.stats.weeklyStats : w.sessionsCount > 0
          /\ \A w, v \in answer.stats.weeklyStats : w.week = v.week => w = v
    /\ answer.op = "year"
       => /\ answer.stats.sessionsCount = SumCounts(answer.stats.monthlyStats)
          /\ answer.stats.totalMinutes = SumTotals(answer.stats.monthlyStats)
          /\ \A k \in answer.stats.monthlyStats : k.sessionsCount > 0
          /\ \A k, l \in answer.stats.monthlyStats : k.month = l.month => k = l

\* Year statistics over two completed sessions of different months.
C37_Witness ==
    /\ answer.op = "year"
    /\ answer.stats.sessionsCount = 2
    /\ Cardinality(answer.stats.monthlyStats) = 2
    /\ answer.stats.totalMinutes = 35

\* C34, as claimed: a stored record is paused only while it is active;
\* cancelling or completing a session leaves no record that is paused and
\* not active.
C34_PausedOnlyWhileActive ==
    \A i \in 1..Len(sessions) : sessions[i].paused => sessions[i].active

\* C35: a stored record that is completed is not active and has its endTime
\* set; a stored record that is active is not completed and has no endTime.
C35_CompletedAndActiveExclude ==
    \A i \in 1..Len(sessions) :
        /\ sessions[i].completed => ~sessions[i].active /\ sessions[i].endTime # NoTime
        /\ sessions[i].active => ~sessions[i].completed /\ sessions[i].endTime = NoTime

\* A completed record is stored after a cancelled one.
C35_Witness ==
    /\ Len(sessions) = 2
    /\ Cancelled(sessions[1])
    /\ sessions[2].completed /\ sessions[2].endTime = now

\* The stored record with the given id in the list ss, NoSession when there
\* is none.
RecordOf(ss, id) == IF IndexOfID(ss, id) # 0 THEN ss[IndexOfID(ss, id)] ELSE NoSession

\* C36, as claimed: in every step the stored elapsedSeconds of a record that
\* is active does not decrease, and the stored elapsedSeconds of a record that
\* has ended does not change.
C36_StoredElapsedNeverDecreases ==
    [][\A id \in 1..MaxSessions :
          (RecordOf(sessions, id) # NoSession /\ RecordOf(sessions', id) # NoSession)
          => IF RecordOf(sessions, id).active
             THEN RecordOf(sessions', id).elapsedSeconds
                    >= RecordOf(sessions, id).elapsedSeconds
             ELSE RecordOf(sessions', id).elapsedSeconds
                    = RecordOf(sessions, id).elapsedSeconds]_vars

\* C32, as claimed: at most one tick is armed, waiting for its second or due
\* for delivery, in every reachable state.
C32_AtMostOneTickArmed ==
    tickDue + tickWait <= 1

\* C33, as claimed: the elapsed seconds a new dashboard sets its timer to
\* contain no paused interval: when a second has passed while the session was
\* paused they are less than the seconds since the session was started.
C33_RecoveryExcludesPausedTime ==
    [][((DashboardNew \/ SettingsSave \/ SettingsBack)
        /\ phase' = "dashboard" /\ timerRunning' /\ pausedOnce')
       => timerElapsed' <= now - activeSession'.startTime - 1]_vars

\* C31: a checkpoint write that fails during a tick is absorbed: the timer
\* goes on to the next second and the next tick is armed; a tick on which no
\* checkpoint is due writes nothing, so nothing is retried; and the next tick
\* on which a checkpoint is due writes the elapsed seconds of that tick.
C31_FailedCheckpointIsAbsorbed ==
    [][(DashTick /\ TickCounts /\ activeSession # NoSession
        /\ ~SessionComplete(timerElapsed + 1))
       => /\ timerElapsed' = timerElapsed + 1
          /\ timerRunning' /\ ~timerPaused'
          /\ tickDue' + tickWait' = tickDue + tickWait
          /\ IF (timerElapsed + 1) % CheckpointEvery = 0
             THEN \/ sessions' = sessions /\ ~synced'
                  \/ /\ synced'
                     /\ RecordOf(sessions', activeSession.id).elapsedSeconds
                          = timerElapsed + 1
             ELSE sessions' = sessions]_vars

\* The checkpoint at ten seconds failed: the record stored at the start still
\* holds no elapsed seconds and the timer has gone on to fifteen.
C31_Witness ==
    /\ faulty
    /\ phase = "dashboard" /\ timerRunning /\ undisturbed /\ ~synced
    /\ timerElapsed = CheckpointEvery + 5
    /\ tickDue + tickWait = 1
    /\ RecordOf(sessions, activeSession.id) # NoSession
    /\ RecordOf(sessions, activeSession.id).elapsedSeconds = 0

\* C40: on the settings screen the stored data is deleted only by a reset key
\* pressed while the confirmation is pending; the first reset key only asks;
\* a back or quit key pressed while the confirmation is pending drops it,
\* deletes nothing and stays on the screen.
C40_ResetNeedsConfirmation ==
    [][/\ (InSettings /\ (sessions' # sessions \/ corrupt' # corrupt))
          => (confirmReset /\ SettingsResetConfirm)
       /\ (InSettings /\ configFile' # configFile)
          => (SettingsSave \/ (confirmReset /\ SettingsResetConfirm))
       /\ SettingsResetConfirm => confirmReset
       /\ SettingsResetAsk
          => (~confirmReset /\ confirmReset' /\ phase' = phase
              /\ UNCHANGED <<sessions, corrupt, configFile>>)
       /\ (SettingsBack /\ confirmReset)
          => (~confirmReset' /\ phase' = phase
              /\ UNCHANGED <<sessions, corrupt, configFile>>)]_vars

\* The reset key was pressed once on a store that holds a session: the
\* confirmation is pending and the session is still stored.
C40_Witness ==
    /\ phase = "settings"
    /\ confirmReset
    /\ sessions # <<>>
    /\ configFile # NoConfig

\* ------------------------------------------------ durations saved mid-session
\* Sessions of more than one minute, started at any second.
MaxPlannedLater == 2

\* The durations the user may save in that specification.
LaterDurations == {1, 2}

\* keys.Start at any second, with either duration configured.
DashStartLater == StartNewSession(MaxTime, MaxPlannedLater)

\* keys.Save with either duration typed.
SettingsSaveLater == SaveTyped(LaterDurations)

NextDuration ==
    \/ RunAppSetup
    \/ SettingsSaveLater
    \/ SettingsBack
    \/ DashSettings
    \/ DashStartLater
    \/ DashTick
    \/ Advance

SpecDuration == Init /\ [][NextDuration]_vars

\* C39: saving a different session duration while a session is in flight leaves
\* that session's planned duration and its completion threshold alone.  No step
\* changes the duration of a stored session; whenever the dashboard runs a
\* timer, the timer's length is the planned duration of the session in flight,
\* also after the dashboard was rebuilt on a saved configuration; a counted
\* tick ends the session exactly when the elapsed seconds reach that planned
\* duration; and a session started on the dashboard is planned with the
\* duration saved last.
C39_SavedDurationLeavesSessionAlone ==
    [][/\ \A i \in 1..Len(sessions) : \A j \in 1..Len(sessions') :
            sessions[i].id = sessions'[j].id
                => sessions'[j].duration = sessions[i].duration
       /\ (phase' = "dashboard" /\ timerRunning' /\ activeSession' # NoSession)
            => /\ timerDuration' = activeSession'.duration * SecondsPerMinute
               /\ RecordOf(sessions', activeSession'.id) # NoSession
                    => RecordOf(sessions', activeSession'.id).duration
                         = activeSession'.duration
       /\ (DashTick /\ TickCounts /\ activeSession # NoSession)
            => (timerRunning'
                  <=> timerElapsed + 1 < activeSession.duration * SecondsPerMinute)
       /\ (phase = "dashboard" /\ phase' = "dashboard" /\ ~timerRunning /\ timerRunning')
            => /\ activeSession'.duration = configFile.SessionDuration
               /\ timerDuration' = configFile.SessionDuration * SecondsPerMinute]_vars

\* A one-minute session is one tick from its end on a dashboard rebuilt after
\* two minutes were saved as the session duration.
C39_Witness ==
    /\ phase = "dashboard"
    /\ timerRunning
    /\ ~timerPaused
    /\ activeSession # NoSession
    /\ activeSession.duration = 1
    /\ configFile # NoConfig
    /\ configFile.SessionDuration = 2
    /\ config.SessionDuration = 2
    /\ timerElapsed = SecondsPerMinute - 1
    /\ tickDue = 1

\* ------------------------------------------------- the statistics on display
\* The views that render the four rollups the dashboard holds.
StatsViews == {"StatsView"} \cup DetailViews

\* One-minute sessions started, cancelled and run to their end while the user
\* moves between the home view and the statistics views.
NextShown ==
    \/ RunAppSetup
    \/ SettingsSave
    \/ SettingsBack
    \/ DashStats
    \/ DashDetail
    \/ DashBack
    \/ DashStart
    \/ DashCancel
    \/ DashTick
    \/ Advance

SpecShown == Init /\ [][NextShown]_vars

\* C38, as claimed: whenever the dashboard shows a statistics view, the day,
\* week, month and year rollups it holds are the rollups computed from the
\* stored sessions.
C38_ShownStatsMatchStore ==
    (phase = "dashboard" /\ viewState \in StatsViews)
        => shown = AllStats(LoadedSessions)
====
